---- MODULE Spec2Model ----
(***************************************************************************)
(* Model of the EXO voice front end: the adaptive VAD threshold, the       *)
(* wake-word spotter and hallucination filter (src/audio/wake_word.py),    *)
(* the streaming capture loop (src/audio/streaming_stt.py), the listener   *)
(* loop (src/core/listener.py) and the multi-room orchestrator             *)
(* (src/core/core.py).                                                     *)
(*                                                                         *)
(* Conventions.  A text is a sequence of one-character strings; the few    *)
(* non-ASCII characters are written by name ("e_acute", "hellip", ...).    *)
(* Energies and thresholds are RMS values restricted to integers; fixed    *)
(* thresholds are even so that x*0.5 and x*2.5 are exact.  Durations are   *)
(* in milliseconds.                                                        *)
(***************************************************************************)
EXTENDS Integers, Sequences, FiniteSets, TLC

VARIABLES
    \* wake_word.py module globals
    noise_floor, noise_calibrated,
    \* threshold evaluations (get_adaptive_threshold called twice in a row)
    \* and the number of energies collected by the last calibration call
    th_fixed, th_last, th_prev, th_samples,
    \* ExoListener.start locals, the clock, and the Brain call of the iteration
    ls_pc, transcript, command, followup_text, deadline, now, brain_call,
    \* whether the listener's input stream is started
    stream_active,
    \* arguments of the capture call in progress, and the audio environment
    args, env,
    \* capture_utterance / streaming_capture_and_transcribe locals
    cap_pc, effective_threshold, buffer, silent_count, voice_detected,
    voice_chunks, total_chunks, wait_chunks, recent_voice, energy,
    pending_future, last_transcript, last_submit_offset, voice_since_submit,
    duration, final_future, ret,
    \* AssistantCore fields and the positions of its two loops
    state, active_sessions, audio_queue, audio_pc, frame, sm_pc, session_id,
    ctx,
    \* objects (frames, command contexts) created so far: the next one's id
    created,
    \* one call of is_hallucination: its arguments and its result
    hf_text, hf_dur, hf_verdict,
    \* one Wyoming audio message: the header and the PCM bytes of the client,
    \* the bytes on the WebSocket, and what _process_message made of them
    wy_msg, wy_data, wy_message, wy_parsed

\* Optional values are sequences of length at most 1: <<>> is Python's None
None == <<>>
Some(x) == <<x>>

Min(S) == CHOOSE x \in S : \A y \in S : x <= y
Max(S) == CHOOSE x \in S : \A y \in S : x >= y

(***************************************************************************)
(* Bounds of the model.                                                    *)
(***************************************************************************)
MaxLen == 5          \* longest enumerated transcript (characters)
MaxNoise == 260      \* largest calibrated noise floor (RMS)
CalibReads == 2      \* successful reads explored in one calibration

(***************************************************************************)
(* Python string primitives used by wake_word.py and listener.py.          *)
(***************************************************************************)
UpperCase == {"E", "X", "O", "A", "S"}

LowerChar(c) ==
    CASE c = "E" -> "e"
      [] c = "X" -> "x"
      [] c = "O" -> "o"
      [] c = "A" -> "a"
      [] c = "S" -> "s"
      [] OTHER -> c

lower(s) == [i \in 1..Len(s) |-> LowerChar(s[i])]

Whitespace == {" ", "TAB", "NL"}

strip(s) ==
    LET keep == {i \in 1..Len(s) : s[i] \notin Whitespace}
    IN  IF keep = {} THEN <<>> ELSE SubSeq(s, Min(keep), Max(keep))

lstrip(s, chars) ==
    LET keep == {i \in 1..Len(s) : s[i] \notin chars}
    IN  IF keep = {} THEN <<>> ELSE SubSeq(s, Min(keep), Len(s))

\* str.find, bytes.find: 0-based index of the first occurrence, -1 when
\* absent
find(s, w) ==
    LET hits == {i \in 0..(Len(s) - Len(w)) : SubSeq(s, i + 1, i + Len(w)) = w}
    IN  IF hits = {} THEN -1 ELSE Min(hits)

contains(s, w) == find(s, w) >= 0

RECURSIVE split(_)
split(s) ==
    LET t == lstrip(s, Whitespace)
        ends == {i \in 1..Len(t) : t[i] \in Whitespace}
        e == IF ends = {} THEN Len(t) + 1 ELSE Min(ends)
    IN  IF t = <<>> THEN <<>>
        ELSE <<SubSeq(t, 1, e - 1)>> \o split(SubSeq(t, e, Len(t)))

\* re \w over the characters of the model: letters, digits, underscore
NonWord == {" ", "TAB", "NL", ",", ".", ":", ";", "!", "?", "middot", "'", "-",
            "[", "]", "hellip", "note", "notes"}

RECURSIVE CountWord(_)
CountWord(s) ==
    IF s = <<>> THEN 0
    ELSE (IF Head(s) \in NonWord THEN 0 ELSE 1) + CountWord(Tail(s))

(***************************************************************************)
(* wake_word.py: configuration.                                            *)
(***************************************************************************)
WAKE_WORDS ==
    << <<"e","x","o">>,
       <<"e_acute","c","h","o">>,
       <<"e","c","h","o">>,
       <<"e","x","p","o">>,
       <<"e","g","o">>,
       <<"e","x","c">>,
       <<"e","x","o","t">>,
       <<"x",".","o">>,
       <<"x"," ","o">>,
       <<"e","x","a","u">>,
       <<"e","x","e","a","u">>,
       <<"e","x","o","s">>,
       <<"e","x","h","o">>,
       <<"e","x","e","a","u">>,
       <<"e","s","s","o">>,
       <<"e","k","s","o">>,
       <<"e","x","-","o">>,
       <<"a","x","o">>,
       <<"h","e","c","h","o">>,
       <<"e","x"," ","o">>,
       <<"e","x","-","e","a","u">>,
       <<" ","e","x","o">>,
       <<"e","x","o"," ">>,
       <<"e","c","s","o">>,
       <<"e","t"," ","q","u","e">>,
       <<"e_grave","q","u","e">>,
       <<"e","k","-","o">>,
       <<"l","'","e","x","o">>,
       <<"l","'","e_acute","c","h","o">>,
       <<"e","x","a">>,
       <<"e","k","o">>,
       <<"e","x","a","u">>,
       <<"e","q","u","o">> >>

WHISPER_HALLUCINATIONS ==
    << <<"s","o","u","s","-","t","i","t","r","e","s">>,
       <<"s","o","u","s","-","t","i","t","r","a","g","e">>,
       <<"s","o","u","s","-","t","i","t","r","e_acute">>,
       <<"a","m","a","r","a",".","o","r","g">>,
       <<"m","e","r","c","i"," ","d","'","a","v","o","i","r"," ","r","e","g","a","r","d","e_acute">>,
       <<"m","e","r","c","i"," ","d","e"," ","v","o","t","r","e"," ","a","t","t","e","n","t","i","o","n">>,
       <<"t","r","a","d","u","i","s","e","z">>,
       <<"s","u","b","s","c","r","i","b","e">>,
       <<"a","b","o","n","n","e","z">>,
       <<".",".",".">>,
       <<"hellip">>,
       <<"note">>,
       <<"notes">>,
       <<"f","i","n"," ","d","e"," ","l","a"," ","v","i","d","e_acute","o">>,
       <<"f","i","n"," ","d","e"," ","v","o","t","r","e"," ","v","i","d","e_acute","o">>,
       <<"c","o","n","t","r","i","b","u","t","i","o","n","s"," ","d","e">>,
       <<"[","m","u","s","i","q","u","e","]">>,
       <<"[","a","p","p","l","a","u","d","i","s","s","e","m","e","n","t","s","]">>,
       <<"[","r","i","r","e","s","]">>,
       <<"j","e"," ","v","o","u","s"," ","i","n","v","i","t","e">>,
       <<"v","i","s","a","g","e"," ","d","e"," ","s","a","u","v","a","g","e">>,
       <<"v","i","s","a","g","e"," ","d","e"," ","l","a"," ","v","i","s","e">>,
       <<"c","a","r","a","c","t","e_acute","r","i","s","t","i","q","u","e","s">>,
       <<"j","e"," ","v","o","u","s"," ","r","e","m","e","r","c","i","e">>,
       <<"l","'","e_acute","c","o","n","o","m","i","e"," ","d","e"," ","l","a">>,
       <<"i","l"," ","y"," ","a"," ","u","n"," ","v","i","s","a","g","e">>,
       <<"l","a"," ","f","i","n"," ","d","e"," ","v","o","t","r","e">>,
       <<"j","e"," ","s","u","i","s"," ","v","e","n","u">>,
       <<"c","'","e","s","t"," ","l","e"," ","c","a","s"," ","d","e">>,
       <<"i","l"," ","e","s","t"," ","a","u"," ","c","o","u","r","a","n","t">>,
       <<"a","l","o","r","s"," ","q","u","'","o","n"," ","v","a">>,
       <<"s","'","i","l"," ","v","o","u","s"," ","p","l","a","i_circ","t">>,
       <<"f","a","i","r","e"," ","u","n","e"," ","a","u","t","r","e"," ","v","i","d","e_acute","o">>,
       <<"c","'","e","s","t"," ","p","a","s"," ","l","e"," ","t","r","u","c">>,
       <<"l","'","e_acute","c","r","a","n">>,
       <<"l","'","e","x","i","l">>,
       <<"a_grave"," ","p","r","o","t","e","c","t","i","o","n">>,
       <<"a","u","-","d","e","l","a_grave">>,
       <<"c","'","e","s","t"," ","l","a"," ","v","i","e">>,
       <<"c","'","e","s","t"," ","u","n","e"," ","b","o","n","n","e">>,
       <<"s","i"," ","l","a"," ","v","i","e">> >>

ADAPTIVE_MULTIPLIER == 3
DEFAULT_VOICE_THRESHOLD == 300

(***************************************************************************)
(* wake_word.py: is_hallucination, contains_wake_word,                     *)
(* extract_command_after_wake.                                             *)
(***************************************************************************)
Range(s) == {s[i] : i \in 1..Len(s)}

\* the word-rate rule applied from 1.0 s on instead of above 1.0 s
is_hallucination_from_1s(text, audio_duration_ms) ==
    LET text_lower == strip(lower(text))
        words == split(text_lower)
    IN  \/ CountWord(text_lower) < 3
        \/ \E k \in 1..Len(WHISPER_HALLUCINATIONS) :
               contains(text_lower, WHISPER_HALLUCINATIONS[k])
        \/ /\ audio_duration_ms >= 1000
           /\ Len(words) * 1000 > 6 * audio_duration_ms
        \/ /\ Len(words) >= 6
           /\ 2 * Cardinality(Range(words)) < Len(words)

is_hallucination(text, audio_duration_ms) ==
    LET text_lower == strip(lower(text))
        words == split(text_lower)
    IN  \/ CountWord(text_lower) < 3
        \/ \E k \in 1..Len(WHISPER_HALLUCINATIONS) :
               contains(text_lower, WHISPER_HALLUCINATIONS[k])
        \/ /\ audio_duration_ms > 1000
           /\ Len(words) * 1000 > 6 * audio_duration_ms
        \/ /\ Len(words) >= 6
           /\ 2 * Cardinality(Range(words)) < Len(words)

\* the same without the search for a wake word (lines 137-138)
contains_wake_word_unsearched(text) == ~is_hallucination(text, 0)

contains_wake_word(text) ==
    /\ ~is_hallucination(text, 0)
    /\ \E k \in 1..Len(WAKE_WORDS) : contains(strip(lower(text)), WAKE_WORDS[k])

\* line 156: a found variant replaces the current best only if strictly longer
WakeBetterLast(idx, wlen, best_idx, best_len) == idx >= 0

WakeBetter(idx, wlen, best_idx, best_len) ==
    idx >= 0 /\ (best_idx < 0 \/ wlen > best_len)

RECURSIVE WakeScan(_, _, _, _)
WakeScan(text_lower, k, best_idx, best_len) ==
    IF k > Len(WAKE_WORDS) THEN <<best_idx, best_len>>
    ELSE LET w == WAKE_WORDS[k]
             idx == find(text_lower, w)
         IN  IF WakeBetter(idx, Len(w), best_idx, best_len)
             THEN WakeScan(text_lower, k + 1, idx, Len(w))
             ELSE WakeScan(text_lower, k + 1, best_idx, best_len)

LeadingJunk == {" ", ",", ".", ":", ";", "!", "?", "middot", "TAB", "NL"}

extract_command_after_wake(text) ==
    LET text_clean == strip(text)
        text_lower == lower(text_clean)
        best == WakeScan(text_lower, 1, -1, 0)
        best_idx == best[1]
        best_len == best[2]
    IN  IF best_idx < 0 THEN text_clean
        ELSE lstrip(SubSeq(text_clean, best_idx + best_len + 1, Len(text_clean)),
                    LeadingJunk)

(***************************************************************************)
(* wake_word.py: noise floor calibration and adaptive threshold.           *)
(***************************************************************************)
KthSmallest(es, k) ==
    CHOOSE v \in Range(es) :
        /\ Cardinality({i \in 1..Len(es) : es[i] < v}) < k
        /\ k <= Cardinality({i \in 1..Len(es) : es[i] <= v})

\* numpy.median: the middle value, or the mean of the two middle values
median(es) ==
    LET n == Len(es)
    IN  IF n % 2 = 1 THEN KthSmallest(es, (n + 1) \div 2)
        ELSE (KthSmallest(es, n \div 2) + KthSmallest(es, n \div 2 + 1)) \div 2

\* energies of the frames read during a calibration (even, so that the
\* mean of two of them is an integer)
CalibEnergies == {0, 20, 100, 260}

CalibRuns == UNION {[1..n -> CalibEnergies] : n \in 0..CalibReads}

\* calibrate_noise_floor, given the energies of the reads that succeeded
calibrate_noise_floor(energies) ==
    IF energies # <<>>
    THEN /\ noise_floor' = median(energies)
         /\ noise_calibrated' = TRUE
    ELSE UNCHANGED <<noise_floor, noise_calibrated>>

get_adaptive_threshold_uncapped(fixed_threshold) ==
    IF noise_calibrated /\ noise_floor > 0
    THEN Max({noise_floor * ADAPTIVE_MULTIPLIER, fixed_threshold \div 2})
    ELSE fixed_threshold

get_adaptive_threshold(fixed_threshold) ==
    IF noise_calibrated /\ noise_floor > 0
    THEN LET adaptive == noise_floor * ADAPTIVE_MULTIPLIER
         IN  Max({Min({adaptive, (fixed_threshold * 5) \div 2}),
                  fixed_threshold \div 2})
    ELSE fixed_threshold

(***************************************************************************)
(* Variable groups, and the transcripts used as recognizer answers.        *)
(***************************************************************************)
noiseVars == <<noise_floor, noise_calibrated>>
thVars == <<th_fixed, th_last, th_prev, th_samples>>
lsVars == <<ls_pc, transcript, command, followup_text, brain_call,
           stream_active>>
coreVars == <<state, active_sessions, audio_queue, audio_pc, frame, sm_pc,
              session_id, ctx, created>>
hfVars == <<hf_text, hf_dur, hf_verdict>>
wyVars == <<wy_msg, wy_data, wy_message, wy_parsed>>

T_exo_allume == <<"E","x","o",","," ","a","l","l","u","m","e"," ","l","a"," ","l","u","m","i","e_grave","r","e">>
T_exo == <<"E","x","o">>
T_allume == <<"a","l","l","u","m","e"," ","l","a"," ","l","u","m","i","e_grave","r","e">>
T_soustitres == <<"S","o","u","s","-","t","i","t","r","e","s">>
T_exo_dis_echo == <<"E","x","o"," ","d","i","s"," ","a_grave"," ","l","'","e_acute","c","h","o"," ","b","o","n","j","o","u","r">>
T_exo_exa == <<"E","x","o"," ","e","x","a">>
T_cmd_allume == <<"a","l","l","u","m","e"," ","l","a"," ","l","u","m","i","e_grave","r","e">>

(***************************************************************************)
(* wake_word.py / streaming_stt.py: VAD and streaming configuration.       *)
(***************************************************************************)
DEFAULT_SILENCE_CHUNKS == 5
DEFAULT_MIN_UTTERANCE_SEC == 500       \* 0.5 s
DEFAULT_MAX_UTTERANCE_SEC == 10000     \* 10.0 s
DEFAULT_MIN_VOICE_CHUNKS == 5
SILENCE_WINDOW_SIZE == 15
TRANSCRIBE_INTERVAL_SEC == 1000        \* 1.0 s
REUSE_VOICE_THRESHOLD == 6
MAX_STT_SEC == 8000                    \* 8.0 s
MIN_STT_SAMPLES == 4800

\* voice_ratio < SILENCE_END_RATIO (0.20) for a window of booleans
BelowEndRatio(window) ==
    5 * Cardinality({i \in 1..Len(window) : window[i]}) < Len(window)

(***************************************************************************)
(* Bounds of the audio environment.                                        *)
(***************************************************************************)
WaitCap == 2         \* wait_chunks saturates here when no timeout reads it
NowCap == 7200       \* the clock (ms) saturates here, past the follow-up deadline
MaxSpeech == 11      \* frames after which a speaker has fallen silent
MaxPauses == 1       \* times a speaker resumes after a pause

(***************************************************************************)
(* The capture call: capture_utterance (wake_word.py) and                  *)
(* streaming_capture_and_transcribe (streaming_stt.py) share the VAD loop. *)
(***************************************************************************)
Streaming == "streaming_capture_and_transcribe"
Plain == "capture_utterance"

FrameBytes == args.chunk_size * 2                         \* PCM16
ChunkMs == (args.chunk_size * 1000) \div args.sample_rate

\* the same counting the frame in which max_sec ends
MaxChunksInclusive(a) == (a.max_sec * a.sample_rate) \div (1000 * a.chunk_size) + 1

\* int(max_sec * sample_rate / chunk_size)
MaxChunks(a) == (a.max_sec * a.sample_rate) \div (1000 * a.chunk_size)
max_chunks == MaxChunks(args)

\* int(timeout_sec * sample_rate / chunk_size) if timeout_sec else None
timeout_chunks ==
    IF args.timeout_sec = None \/ args.timeout_sec[1] = 0 THEN None
    ELSE Some((args.timeout_sec[1] * args.sample_rate) \div (1000 * args.chunk_size))

\* "if timeout_chunks and ...": None and 0 are both falsy
Truthy(opt) == opt # None /\ opt[1] # 0

\* line 142: if timeout_chunks and wait_chunks >= timeout_chunks
TimedOut(opt, waited) == Truthy(opt) /\ waited >= opt[1]

\* int(TRANSCRIBE_INTERVAL_SEC * sample_rate * 2)
interval_bytes == (TRANSCRIBE_INTERVAL_SEC * args.sample_rate * 2) \div 1000

BufferBytes(buf) == Len(buf) * FrameBytes

\* len(buffer) / (sample_rate * 2), in milliseconds
DurationMs(buf) == (BufferBytes(buf) * 1000) \div (args.sample_rate * 2)

\* deque(maxlen=SILENCE_WINDOW_SIZE).append
WindowAppend(window, b) ==
    LET w == Append(window, b)
    IN  IF Len(w) > SILENCE_WINDOW_SIZE THEN Tail(w) ELSE w

\* line 133 / wake_word.py line 261: a waiting frame starts the utterance
OnsetAtOrAbove(e, threshold) == e >= threshold

\* the same missing the frames just above the threshold
OnsetWellAbove(e, threshold) == e > threshold + 1

Onset(e, threshold) == e > threshold

\* line 149 / wake_word.py line 276: an accumulating frame is voiced
IsVoiceChunk(e, threshold) == e >= threshold

\* lines 173-177 without the cap: the whole buffer is the snapshot
SnapshotWhole(buf) == BufferBytes(buf)

\* the index of the buffer at which the slice [-max_stt_bytes:] starts
SnapshotStart(buf) ==
    LET max_stt_bytes == (MAX_STT_SEC * args.sample_rate * 2) \div 1000
    IN  IF BufferBytes(buf) > max_stt_bytes /\ max_stt_bytes > 0
        THEN BufferBytes(buf) - max_stt_bytes ELSE 0

\* snapshot[-max_stt_bytes:], as a number of bytes
SnapshotBytes(buf) ==
    LET max_stt_bytes == (MAX_STT_SEC * args.sample_rate * 2) \div 1000
    IN  IF BufferBytes(buf) > max_stt_bytes THEN max_stt_bytes ELSE BufferBytes(buf)

\* a job of the executor; result is what _transcribe_buffer returned or raised
Job(bytes) ==
    [bytes |-> bytes, start |-> 0, status |-> "running", cancelled |-> FALSE,
     result |-> <<>>]

\* _transcribe_buffer: "" below 0.3 s of samples, else the engine's answer
\* (one of the texts of the environment) or the exception it raises
Raised == <<"raised">>
TranscribeOutcomes(bytes) ==
    IF bytes \div 2 < MIN_STT_SAMPLES THEN {<<>>}
    ELSE env.texts \cup {Raised}

\* times the speaker has resumed after a pause, as recorded in the buffer
Resumptions(buf) ==
    Cardinality({i \in 1..(Len(buf) - 1) : ~buf[i] /\ buf[i + 1]})

\* energies the next frame can have: just below, at, and just above the
\* threshold, as far as the environment's speaker allows
FrameEnergies ==
    IF \/ voice_detected /\ total_chunks >= env.max_speech
       \/ voice_detected /\ silent_count > 0 /\ Resumptions(buffer) >= env.pauses
       \/ ~voice_detected /\ env.prompt /\ wait_chunks >= WaitCap
    THEN {effective_threshold - 1}
    ELSE IF env.exact
    THEN {effective_threshold - 1, effective_threshold, effective_threshold + 1}
    ELSE {effective_threshold - 1, effective_threshold + 1}

capLocals == <<effective_threshold, buffer, silent_count, voice_detected,
               voice_chunks, total_chunks, wait_chunks, recent_voice, energy,
               pending_future, last_transcript, last_submit_offset,
               voice_since_submit, duration, final_future>>
capVars == <<args, cap_pc, capLocals, ret>>

\* what a step of the capture call leaves alone
capOthers == <<thVars, lsVars, deadline, env, coreVars, hfVars, wyVars>>

NoReturn == [transcript |-> <<>>, audio |-> <<>>, reused |-> None]

DefaultArgs ==
    [fn |-> Streaming, sample_rate |-> 16000, chunk_size |-> 1024,
     voice_threshold |-> DEFAULT_VOICE_THRESHOLD,
     silence_chunks_end |-> DEFAULT_SILENCE_CHUNKS,
     min_sec |-> DEFAULT_MIN_UTTERANCE_SEC,
     max_sec |-> DEFAULT_MAX_UTTERANCE_SEC,
     timeout_sec |-> None]

SnapSpeech == 8      \* frames after which the speaker of SnapInit stays silent
SoftSpeech == 6      \* frames after which the speaker of SoftInit stays silent
SoftPauses == 1      \* pauses after which the speaker of SoftInit stays silent

\* the state of a capture that has not been called
CapIdle ==
    /\ cap_pc = "idle"
    /\ args = DefaultArgs
    /\ effective_threshold = 0 /\ buffer = <<>> /\ silent_count = 0
    /\ voice_detected = FALSE /\ voice_chunks = 0 /\ total_chunks = 0
    /\ wait_chunks = 0 /\ recent_voice = <<>> /\ energy = 0
    /\ pending_future = None /\ last_transcript = <<>>
    /\ last_submit_offset = 0 /\ voice_since_submit = 0
    /\ duration = None /\ final_future = None
    /\ ret = NoReturn

\* the while condition letting one more frame in
LoopTopLate(total, a) == IF total <= MaxChunks(a) THEN "read" ELSE "sealed"

\* the while condition, evaluated on entry and after every iteration
LoopTop(total, a) == IF total < MaxChunks(a) THEN "read" ELSE "sealed"

\* line 98 calibrating at every call
CalibrationAlways(calibrated) == TRUE

\* line 98 (wake_word.py 234): if not _noise_calibrated
CalibrationDue(calibrated) == ~calibrated

\* lines 95-121 (wake_word.py 232-249): calibrate if needed, then the locals
CapEnter(a) ==
    /\ args' = a
    /\ IF CalibrationDue(noise_calibrated)
       THEN \E energies \in env.calib : calibrate_noise_floor(energies)
       ELSE UNCHANGED noiseVars
    /\ effective_threshold' = get_adaptive_threshold(a.voice_threshold)'
    /\ buffer' = <<>> /\ silent_count' = 0 /\ voice_detected' = FALSE
    /\ voice_chunks' = 0 /\ total_chunks' = 0 /\ wait_chunks' = 0
    /\ recent_voice' = <<>> /\ energy' = 0
    /\ pending_future' = None /\ last_transcript' = <<>>
    /\ last_submit_offset' = 0 /\ voice_since_submit' = 0
    /\ duration' = None /\ final_future' = None
    /\ ret' = NoReturn
    /\ cap_pc' = LoopTop(0, a)

\* lines 186-191 and 213-218: keep a job's answer as last_transcript.  The
\* name duration is bound only after the loop (line 197): inside the loop
\* its evaluation raises for every non-empty result, and the except clause
\* swallows that like any exception of the job itself
\* lines 213-216 keeping every non-empty result of the job
KeepUnfiltered(outcome, dur, last) ==
    IF outcome = Raised \/ outcome = <<>> \/ dur = None THEN last ELSE outcome

KeepResult(outcome, dur, last) ==
    IF outcome = Raised \/ outcome = <<>> \/ dur = None THEN last
    ELSE IF ~is_hallucination(outcome, dur[1]) THEN outcome
    ELSE last

\* line 203 (wake_word.py 299-304): the utterance is discarded
DiscardDurationOnly(buf, voiced) == DurationMs(buf) < args.min_sec

Discard(buf, voiced) ==
    DurationMs(buf) < args.min_sec \/ voiced < DEFAULT_MIN_VOICE_CHUNKS

\* line 222: reuse the speculative transcript
ReuseIgnoringTail(last, tail_voiced) == last # <<>>

Reuse(last, tail_voiced) ==
    last # <<>> /\ tail_voiced < REUSE_VOICE_THRESHOLD

\* lines 221-239: return the speculative transcript or start the final job
Decide(last) ==
    IF Reuse(last, voice_since_submit)
    THEN /\ ret' = [transcript |-> last, audio |-> buffer, reused |-> Some(TRUE)]
         /\ cap_pc' = "returned"
         /\ UNCHANGED final_future
    ELSE /\ final_future' = Some(Job(BufferBytes(buffer)))
         /\ cap_pc' = "final_stt"
         /\ UNCHANGED ret

\* lines 162-166 sealing at a voiced fraction of exactly SILENCE_END_RATIO
SoftEndAtRatio(voiced, window) ==
    /\ voiced >= DEFAULT_MIN_VOICE_CHUNKS
    /\ Len(window) >= SILENCE_WINDOW_SIZE
    /\ 5 * Cardinality({i \in 1..Len(window) : window[i]}) <= Len(window)

\* lines 162-166 (wake_word.py 289-293): enough voiced chunks so far, a full
\* window, and a voiced fraction below SILENCE_END_RATIO
SoftEnd(voiced, window) ==
    /\ voiced >= DEFAULT_MIN_VOICE_CHUNKS
    /\ Len(window) >= SILENCE_WINDOW_SIZE
    /\ BelowEndRatio(window)

\* lines 152-155 breaking one silent frame late
HardEndLate(is_voice_chunk, silent, silence_chunks_end) ==
    ~is_voice_chunk /\ silent > silence_chunks_end

\* lines 152-155 (wake_word.py 279-282): the silent run is long enough
HardEnd(is_voice_chunk, silent, silence_chunks_end) ==
    ~is_voice_chunk /\ silent >= silence_chunks_end

\* lines 169-172: a snapshot is submitted even while a job is pending
SubmitOverPending(new_bytes, pending, voiced) ==
    new_bytes >= interval_bytes /\ voiced >= DEFAULT_MIN_VOICE_CHUNKS

\* lines 169-172 without the test of the voiced chunks
SubmitUnvoiced(new_bytes, pending, voiced) ==
    new_bytes >= interval_bytes /\ pending = None

\* lines 169-172: enough new audio, no job pending, enough voiced chunks
Submit(new_bytes, pending, voiced) ==
    /\ new_bytes >= interval_bytes
    /\ pending = None
    /\ voiced >= DEFAULT_MIN_VOICE_CHUNKS

\* one iteration of the loop with a frame of energy e, up to its sleep
CapRead(e) ==
    /\ cap_pc = "read"
    /\ energy' = e
    /\ IF ~voice_detected
       THEN IF Onset(e, effective_threshold)
            THEN /\ voice_detected' = TRUE
                 /\ buffer' = <<TRUE>>
                 /\ silent_count' = 0
                 /\ voice_chunks' = 1
                 /\ total_chunks' = 1
                 /\ voice_since_submit' = IF args.fn = Streaming THEN 1 ELSE 0
                 /\ cap_pc' = "sleep"
                 /\ UNCHANGED <<wait_chunks, recent_voice, pending_future,
                                last_transcript, last_submit_offset, ret>>
            ELSE /\ wait_chunks' = IF Truthy(timeout_chunks) THEN wait_chunks + 1
                                   ELSE IF wait_chunks < WaitCap THEN wait_chunks + 1
                                   ELSE wait_chunks
                 /\ cap_pc' = IF TimedOut(timeout_chunks, wait_chunks + 1)
                              THEN "returned" ELSE "sleep"
                 /\ UNCHANGED <<voice_detected, buffer, silent_count, voice_chunks,
                                total_chunks, voice_since_submit, recent_voice,
                                pending_future, last_transcript,
                                last_submit_offset, ret>>
       ELSE LET is_voice_chunk == IsVoiceChunk(e, effective_threshold)
                buf == Append(buffer, is_voice_chunk)
                window == WindowAppend(recent_voice, is_voice_chunk)
                silent == IF is_voice_chunk THEN 0 ELSE silent_count + 1
                voiced == IF is_voice_chunk THEN voice_chunks + 1 ELSE voice_chunks
                tail == IF is_voice_chunk /\ args.fn = Streaming
                        THEN voice_since_submit + 1 ELSE voice_since_submit
                hard_end == HardEnd(is_voice_chunk, silent, args.silence_chunks_end)
                soft_end == SoftEnd(voiced, window)
                submit == /\ args.fn = Streaming
                          /\ Submit(BufferBytes(buf) - last_submit_offset,
                                    pending_future, voiced)
                pending == IF submit
                           THEN Some([Job(SnapshotBytes(buf))
                                         EXCEPT !.start = SnapshotStart(buf)])
                           ELSE pending_future
                polled == pending # None /\ pending[1].status = "done"
            IN  /\ buffer' = buf
                /\ total_chunks' = total_chunks + 1
                /\ recent_voice' = window
                /\ silent_count' = silent
                /\ voice_chunks' = voiced
                /\ UNCHANGED <<voice_detected, wait_chunks, ret>>
                /\ IF hard_end \/ soft_end
                   THEN /\ cap_pc' = "sealed"
                        /\ voice_since_submit' = tail
                        /\ UNCHANGED <<pending_future, last_transcript,
                                       last_submit_offset>>
                   ELSE /\ cap_pc' = "sleep"
                        /\ last_submit_offset' =
                               IF submit THEN BufferBytes(buf) ELSE last_submit_offset
                        /\ voice_since_submit' = IF submit THEN 0 ELSE tail
                        /\ IF polled
                           THEN /\ pending_future' = None
                                /\ last_transcript' =
                                       KeepResult(pending[1].result, duration,
                                                  last_transcript)
                           ELSE /\ pending_future' = pending
                                /\ UNCHANGED last_transcript
    /\ now' = IF deadline = None THEN now
              ELSE IF now + ChunkMs < NowCap THEN now + ChunkMs ELSE NowCap
    /\ UNCHANGED <<args, effective_threshold, duration, final_future>>
    /\ UNCHANGED <<noiseVars, capOthers>>

\* stream.read raises: sleep 10 ms and try again (lines 126-128)
CapReadFail ==
    /\ cap_pc = "read"
    /\ cap_pc' = "sleep"
    /\ UNCHANGED <<args, capLocals, ret>>
    /\ UNCHANGED <<now, noiseVars, capOthers>>

\* asyncio.sleep returns; the loop condition is evaluated
CapSleepDone ==
    /\ cap_pc = "sleep"
    /\ cap_pc' = LoopTop(total_chunks, args)
    /\ UNCHANGED <<args, capLocals, ret>>
    /\ UNCHANGED <<now, noiseVars, capOthers>>

\* lines 196-222 (wake_word.py 297-306): after the loop
CapSeal ==
    /\ cap_pc = "sealed"
    /\ duration' = Some(DurationMs(buffer))
    /\ IF args.fn = Plain
       THEN /\ ret' = IF Discard(buffer, voice_chunks) THEN NoReturn
                      ELSE [transcript |-> <<>>, audio |-> buffer, reused |-> None]
            /\ cap_pc' = "returned"
            /\ UNCHANGED <<pending_future, final_future>>
       ELSE IF Discard(buffer, voice_chunks)
       THEN /\ pending_future' =
                   IF pending_future # None /\ pending_future[1].status # "done"
                   THEN Some([pending_future[1] EXCEPT !.cancelled = TRUE])
                   ELSE pending_future
            /\ ret' = NoReturn
            /\ cap_pc' = "returned"
            /\ UNCHANGED final_future
       ELSE IF pending_future # None
       THEN /\ cap_pc' = "await_pending"
            /\ UNCHANGED <<pending_future, final_future, ret>>
       ELSE /\ Decide(last_transcript)
            /\ UNCHANGED pending_future
    /\ UNCHANGED <<args, effective_threshold, buffer, silent_count, voice_detected,
                   voice_chunks, total_chunks, wait_chunks, recent_voice, energy,
                   last_transcript, last_submit_offset, voice_since_submit>>
    /\ UNCHANGED <<now, noiseVars, capOthers>>

\* lines 212-219: the pending job resolves while it is awaited
CapAwaitPending ==
    /\ cap_pc = "await_pending"
    /\ pending_future[1].status = "done"
    /\ LET last == KeepResult(pending_future[1].result, duration, last_transcript)
       IN  /\ last_transcript' = last
           /\ Decide(last)
    /\ pending_future' = None
    /\ UNCHANGED <<args, effective_threshold, buffer, silent_count, voice_detected,
                   voice_chunks, total_chunks, wait_chunks, recent_voice, energy,
                   last_submit_offset, voice_since_submit, duration>>
    /\ UNCHANGED <<now, noiseVars, capOthers>>

\* lines 241-242 without the fallback: a rejected final result gives ""
FinalTranscriptNoFallback(outcome, dur, last) ==
    IF outcome = <<>> \/ is_hallucination(outcome, dur) THEN <<>> ELSE outcome

\* lines 241-242: an empty or rejected final result falls back on the last
\* good speculative result
FinalTranscript(outcome, dur, last) ==
    IF outcome = <<>> \/ is_hallucination(outcome, dur) THEN last ELSE outcome

\* lines 237-254: the final job resolves; its exception is not caught
CapFinal ==
    /\ cap_pc = "final_stt"
    /\ final_future[1].status = "done"
    /\ LET outcome == final_future[1].result
       IN  IF outcome = Raised
           THEN cap_pc' = "raised" /\ UNCHANGED ret
           ELSE /\ cap_pc' = "returned"
                /\ ret' = [transcript |->
                               FinalTranscript(outcome, duration[1], last_transcript),
                           audio |-> buffer, reused |-> Some(FALSE)]
    /\ UNCHANGED <<args, capLocals>>
    /\ UNCHANGED <<now, noiseVars, capOthers>>

\* the executor thread finishes the speculative job
WorkerFinishPending ==
    /\ pending_future # None
    /\ pending_future[1].status = "running"
    /\ \E outcome \in TranscribeOutcomes(pending_future[1].bytes) :
           pending_future' = Some([pending_future[1] EXCEPT !.status = "done",
                                                            !.result = outcome])
    /\ UNCHANGED <<args, cap_pc, effective_threshold, buffer, silent_count,
                   voice_detected, voice_chunks, total_chunks, wait_chunks,
                   recent_voice, energy, last_transcript, last_submit_offset,
                   voice_since_submit, duration, final_future, ret>>
    /\ UNCHANGED <<now, noiseVars, capOthers>>

\* the executor thread finishes the final job
WorkerFinishFinal ==
    /\ final_future # None
    /\ final_future[1].status = "running"
    /\ \E outcome \in TranscribeOutcomes(final_future[1].bytes) :
           final_future' = Some([final_future[1] EXCEPT !.status = "done",
                                                        !.result = outcome])
    /\ UNCHANGED <<args, cap_pc, effective_threshold, buffer, silent_count,
                   voice_detected, voice_chunks, total_chunks, wait_chunks,
                   recent_voice, energy, pending_future, last_transcript,
                   last_submit_offset, voice_since_submit, duration, ret>>
    /\ UNCHANGED <<now, noiseVars, capOthers>>

\* a caller invokes the capture with one of the configurations below
CapCall(a) ==
    /\ cap_pc = "idle"
    /\ CapEnter(a)
    /\ UNCHANGED <<now, capOthers>>

\* the caller's frame is popped: the locals of the call are gone
CapReset ==
    /\ cap_pc' = "idle"
    /\ args' = DefaultArgs
    /\ effective_threshold' = 0 /\ buffer' = <<>> /\ silent_count' = 0
    /\ voice_detected' = FALSE /\ voice_chunks' = 0 /\ total_chunks' = 0
    /\ wait_chunks' = 0 /\ recent_voice' = <<>> /\ energy' = 0
    /\ pending_future' = None /\ last_transcript' = <<>>
    /\ last_submit_offset' = 0 /\ voice_since_submit' = 0
    /\ duration' = None /\ final_future' = None
    /\ ret' = NoReturn

(***************************************************************************)
(* ExoListener.start (listener.py): the permanent loop.  The clock counts  *)
(* milliseconds since the follow-up wait began; a blocking frame read      *)
(* takes one frame period (the device delivers one frame per period and    *)
(* the loop consumes one per iteration), everything else takes no time.    *)
(***************************************************************************)
SAMPLE_RATE == 16000
CHUNK_SIZE == 1024
FOLLOWUP_TIMEOUT_SEC == 7000           \* 7.0 s
FOLLOWUP_MIN_SEC == 300                \* min_sec=0.3

ListenerArgs(min_sec, timeout_sec) ==
    [DefaultArgs EXCEPT !.sample_rate = SAMPLE_RATE, !.chunk_size = CHUNK_SIZE,
                        !.min_sec = min_sec, !.timeout_sec = timeout_sec]

lsOthers == <<thVars, env, coreVars, hfVars, wyVars>>

\* lines 280-285: the main capture of an iteration is called
LsCapture ==
    /\ ls_pc = "capture"
    /\ cap_pc = "idle"
    /\ CapEnter(ListenerArgs(DEFAULT_MIN_UTTERANCE_SEC, None))
    /\ ls_pc' = "capturing"
    /\ transcript' = <<>> /\ command' = <<>> /\ followup_text' = <<>>
    /\ brain_call' = None
    /\ UNCHANGED <<stream_active, deadline, now, lsOthers>>

\* line 280: the main capture returns its transcript
LsHeard ==
    /\ ls_pc = "capturing"
    /\ cap_pc = "returned"
    /\ transcript' = ret.transcript
    /\ ls_pc' = "heard"
    /\ CapReset
    /\ UNCHANGED stream_active
    /\ UNCHANGED <<command, followup_text, brain_call, deadline, now,
                   noiseVars, lsOthers>>

\* lines 287-303: empty, hallucinated or wake-less transcripts are ignored
LsFilter ==
    /\ ls_pc = "heard"
    /\ ls_pc' = IF \/ transcript = <<>>
                   \/ is_hallucination(transcript, 0)
                   \/ ~contains_wake_word(transcript)
                THEN "capture" ELSE "wake"
    /\ UNCHANGED stream_active
    /\ UNCHANGED <<transcript, command, followup_text, brain_call, deadline,
                   now, noiseVars, capVars, lsOthers>>

\* lines 310-325: a command of fewer than 2 tokens needs a follow-up, for
\* which the deadline is set
LsExtract ==
    /\ ls_pc = "wake"
    /\ LET cmd == extract_command_after_wake(transcript)
       IN  /\ command' = cmd
           /\ IF Len(split(cmd)) >= 2
              THEN /\ ls_pc' = "process"
                   /\ UNCHANGED <<deadline, now>>
              ELSE /\ ls_pc' = "followup"
                   /\ now' = 0
                   /\ deadline' = Some(FOLLOWUP_TIMEOUT_SEC)
    /\ followup_text' = <<>>
    /\ UNCHANGED stream_active
    /\ UNCHANGED <<transcript, brain_call, noiseVars, capVars, lsOthers>>

\* lines 326-337: while time.time() < deadline, capture with the time left
LsFollowup ==
    /\ ls_pc = "followup"
    /\ cap_pc = "idle"
    /\ UNCHANGED stream_active
    /\ UNCHANGED <<transcript, command, followup_text, brain_call, deadline,
                   now, lsOthers>>
    /\ IF now < deadline[1]
       THEN /\ CapEnter(ListenerArgs(FOLLOWUP_MIN_SEC, Some(deadline[1] - now)))
            /\ ls_pc' = "followup_capturing"
       ELSE /\ ls_pc' = "followup_done"
            /\ UNCHANGED <<capVars, noiseVars>>

\* lines 338-340: a non-empty text ends the wait, an empty one retries
LsFollowupHeard ==
    /\ ls_pc = "followup_capturing"
    /\ cap_pc = "returned"
    /\ IF ret.transcript # <<>>
       THEN followup_text' = ret.transcript /\ ls_pc' = "followup_done"
       ELSE followup_text' = followup_text /\ ls_pc' = "followup"
    /\ CapReset
    /\ UNCHANGED stream_active
    /\ UNCHANGED <<transcript, command, brain_call, deadline, now, noiseVars,
                   lsOthers>>

\* lines 342-347: no follow-up text, no command; else the two are joined
LsFollowupDone ==
    /\ ls_pc = "followup_done"
    /\ IF followup_text = <<>>
       THEN ls_pc' = "capture" /\ UNCHANGED command
       ELSE /\ ls_pc' = "process"
            /\ command' = IF command # <<>>
                          THEN strip(command \o <<" ">> \o followup_text)
                          ELSE followup_text
    /\ deadline' = None
    /\ now' = 0
    /\ UNCHANGED stream_active
    /\ UNCHANGED <<transcript, followup_text, brain_call, noiseVars, capVars,
                   lsOthers>>

\* what a run of _process_command meets: a Brain call that raises, a
\* synthesis or playback that raises, or neither
ProcessOutcomes == {"ok", "brain_raised", "tts_raised"}

\* _process_command, lines 196-219: the input stream is stopped and the
\* command is handed to the Brain
LsProcess ==
    /\ ls_pc = "process"
    /\ stream_active' = FALSE
    /\ brain_call' = Some(command)
    /\ ls_pc' = "brain"
    /\ UNCHANGED <<transcript, command, followup_text, deadline, now, noiseVars,
                   capVars, lsOthers>>

\* lines 220-258.  Lines 238-254: an exception of the synthesis or of the
\* playback is caught, the text is printed, and the stream is started again
\* and flushed like after a normal playback.  Lines 215-219 are outside any
\* try: an exception of the Brain call leaves _process_command, with the
\* stream stopped, and the loop of start (lines 353-357); shutdown
LsProcessDone(outcome) ==
    /\ ls_pc = "brain"
    /\ IF outcome = "brain_raised"
       THEN ls_pc' = "shutdown" /\ UNCHANGED stream_active
       ELSE ls_pc' = "capture" /\ stream_active' = TRUE
    /\ UNCHANGED <<transcript, command, followup_text, brain_call, deadline, now,
                   noiseVars, capVars, lsOthers>>

\* lines 353-357: an exception of the capture leaves the loop; shutdown
LsRaised ==
    /\ ls_pc \in {"capturing", "followup_capturing"}
    /\ cap_pc = "raised"
    /\ ls_pc' = "shutdown"
    /\ CapReset
    /\ UNCHANGED stream_active
    /\ UNCHANGED <<transcript, command, followup_text, brain_call, deadline,
                   now, noiseVars, lsOthers>>

(***************************************************************************)
(* Threshold evaluation: calibrations interleaved with calls of            *)
(* get_adaptive_threshold; the last two evaluations are kept.              *)
(***************************************************************************)
FixedThresholds == {2, DEFAULT_VOICE_THRESHOLD, 500}

thOthers == <<lsVars, deadline, now, capVars, env, coreVars, hfVars, wyVars>>

ThCalibrate ==
    /\ \E energies \in CalibRuns : calibrate_noise_floor(energies)
    /\ UNCHANGED <<thVars, thOthers>>

\* the same call, with the length of its list of energies (line 186) kept
ThRecalibrate ==
    /\ \E energies \in CalibRuns :
           /\ calibrate_noise_floor(energies)
           /\ th_samples' = Some(Len(energies))
    /\ UNCHANGED <<th_fixed, th_last, th_prev, thOthers>>

ThGet ==
    /\ th_last' = Some([calibrated |-> noise_calibrated, floor |-> noise_floor,
                        fixed |-> th_fixed,
                        result |-> get_adaptive_threshold(th_fixed)])
    /\ th_prev' = th_last
    /\ UNCHANGED <<th_fixed, th_samples, noiseVars, thOthers>>

(***************************************************************************)
(* AssistantCore (core.py): the audio queue, the sessions and the two      *)
(* loops.  A frame is [session_id, priority]; a queue entry is the tuple   *)
(* (priority, frame); active_sessions is the dict in insertion order.      *)
(***************************************************************************)
max_concurrent_sessions == 2

NumSessions == 3     \* session ids that clients use
CoreQueue == 2       \* frames waiting in audio_queue while the loops run
CoreObjects == 4     \* frames and contexts created while the loops run
MaxQueue == 4        \* frames waiting in audio_queue, audio loop alone
MaxObjects == 5      \* frames created, audio loop alone

SessionIds == 1..NumSessions
QueueSessions == {1, 2}
Priorities == {0, 1}

Keys(sessions) == {sessions[i].session_id : i \in 1..Len(sessions)}

\* self.active_sessions[sid] = ctx: a new key goes last, an old one is updated
DictSet(sessions, new) ==
    IF new.session_id \in Keys(sessions)
    THEN [i \in 1..Len(sessions) |->
             IF sessions[i].session_id = new.session_id THEN new ELSE sessions[i]]
    ELSE Append(sessions, new)

\* del self.active_sessions[sid]
DictDel(sessions, sid) ==
    SelectSeq(sessions, LAMBDA c : c.session_id # sid)

\* (priority, frame) < (priority, frame): the priorities decide if they
\* differ; else the frames are compared, which are different objects of a
\* dataclass without ordering: TypeError
EntryLt(a, b) ==
    IF a[1] # b[1] THEN (IF a[1] < b[1] THEN "lt" ELSE "ge") ELSE "raise"

Swap(heap, i, j) == [heap EXCEPT ![i] = heap[j], ![j] = heap[i]]

\* heapq's siftdown: the entry at pos rises while it is less than its
\* parent; positions count from 0 as in the list.  A comparison that raises
\* leaves the list as it is at that moment
RECURSIVE siftdown(_, _, _)
siftdown(heap, startpos, pos) ==
    IF pos <= startpos THEN [heap |-> heap, raised |-> FALSE]
    ELSE LET parentpos == (pos - 1) \div 2
             cmp == EntryLt(heap[pos + 1], heap[parentpos + 1])
         IN  IF cmp = "raise" THEN [heap |-> heap, raised |-> TRUE]
             ELSE IF cmp = "ge" THEN [heap |-> heap, raised |-> FALSE]
             ELSE siftdown(Swap(heap, pos + 1, parentpos + 1), startpos, parentpos)

\* heapq's siftup: the smaller child moves up until a leaf is reached, then
\* the entry is sifted down from there
RECURSIVE siftup(_, _, _)
siftup(heap, startpos, pos) ==
    IF pos >= Len(heap) \div 2 THEN siftdown(heap, startpos, pos)
    ELSE LET childpos == 2 * pos + 1
             cmp == IF childpos + 1 < Len(heap)
                    THEN EntryLt(heap[childpos + 1], heap[childpos + 2])
                    ELSE "lt"
             smaller == IF cmp = "lt" THEN childpos ELSE childpos + 1
         IN  IF cmp = "raise" THEN [heap |-> heap, raised |-> TRUE]
             ELSE siftup(Swap(heap, smaller + 1, pos + 1), startpos, smaller)

\* PriorityQueue._put: heappush appends the entry, then sifts it down
heappush(heap, entry) == siftdown(Append(heap, entry), 0, Len(heap))

\* PriorityQueue._get: heappop removes the last entry, puts it in place of
\* the root and sifts it up; the root is returned unless a comparison
\* raised, in which case it is gone
heappop(heap) ==
    LET lastelt == heap[Len(heap)]
        rest == SubSeq(heap, 1, Len(heap) - 1)
    IN  IF rest = <<>>
        THEN [heap |-> <<>>, item |-> Some(lastelt), raised |-> FALSE]
        ELSE LET r == siftup([rest EXCEPT ![1] = lastelt], 0, 0)
             IN  [heap |-> r.heap,
                  item |-> IF r.raised THEN None ELSE Some(heap[1]),
                  raised |-> r.raised]

coreOthers == <<noiseVars, thVars, lsVars, deadline, now, capVars, env,
               hfVars, wyVars>>

\* _on_audio_frame with an AudioFrame, and _on_local_audio_available, which
\* builds one of priority 0: audio_queue.put.  A TypeError of the put goes
\* to the caller; the entry stays in the list
OnAudioFrame(sid, priority) ==
    /\ Len(audio_queue) < env.queue
    /\ created < env.objects
    /\ created' = created + 1
    /\ audio_queue' =
           heappush(audio_queue,
                    <<priority, [session_id |-> sid, priority |-> priority,
                                 id |-> created + 1]>>).heap
    /\ UNCHANGED <<state, active_sessions, audio_pc, frame, sm_pc, session_id,
                   ctx, coreOthers>>

\* WyomingServer._process_message, 'audio' event: the WyomingAudioFrame it
\* builds has no priority field, so line 284 raises AttributeError before
\* the put, and _process_message logs it (wyoming.py lines 169-170)
OnWyomingAudio ==
    /\ created < env.objects
    /\ created' = created + 1
    /\ UNCHANGED <<state, active_sessions, audio_queue, audio_pc, frame, sm_pc,
                   session_id, ctx, coreOthers>>

\* _on_text_input: the context is registered and the state set
OnTextInput(sid) ==
    /\ created < env.objects
    /\ created' = created + 1
    /\ active_sessions' = DictSet(active_sessions,
                                  [session_id |-> sid, source |-> "text",
                                   id |-> created + 1])
    /\ state' = "processing"
    /\ UNCHANGED <<audio_queue, audio_pc, frame, sm_pc, session_id, ctx,
                   coreOthers>>

\* _audio_processing_loop, lines 169-175 and 216-219: the root of the heap
\* is taken; an exception of the queue is logged and the loop goes on
AudioGet ==
    /\ audio_pc = "get"
    /\ audio_queue # <<>>
    /\ LET popped == heappop(audio_queue)
       IN  /\ audio_queue' = popped.heap
           /\ IF popped.raised
              THEN UNCHANGED <<frame, audio_pc>>
              ELSE frame' = Some(popped.item[1][2]) /\ audio_pc' = "transcribe"
    /\ UNCHANGED <<state, active_sessions, sm_pc, session_id, ctx, created,
                   coreOthers>>

\* lines 191-210: a non-empty transcript registers a context
AudioTranscribed(heard) ==
    /\ audio_pc = "transcribe"
    /\ active_sessions' =
           IF heard
           THEN DictSet(active_sessions,
                        [session_id |-> frame[1].session_id, source |-> "audio",
                         id |-> frame[1].id])
           ELSE active_sessions
    /\ frame' = None
    /\ audio_pc' = "get"
    /\ UNCHANGED <<state, audio_queue, sm_pc, session_id, ctx, created,
                   coreOthers>>

\* _state_machine_loop, lines 232-248: the first session goes to the Brain
SmProcess ==
    /\ sm_pc = "top"
    /\ state = "processing"
    /\ active_sessions # <<>>
    /\ session_id' = Some(active_sessions[1].session_id)
    /\ ctx' = Some(active_sessions[1])
    /\ sm_pc' = "brain"
    /\ UNCHANGED <<state, active_sessions, audio_queue, audio_pc, frame,
                   created, coreOthers>>

\* lines 243-267: the Brain call returns, the session is removed and the
\* state set to IDLE.  Lines 278-280 and 272-275: the call raises, the state
\* is set to ERROR and the loop, without yielding, enters the ERROR branch
\* up to its one-second sleep
SmBrainDone(raised) ==
    /\ sm_pc = "brain"
    /\ IF raised
       THEN /\ state' = "error"
            /\ sm_pc' = "cooldown"
            /\ UNCHANGED active_sessions
       ELSE /\ active_sessions' = DictDel(active_sessions, session_id[1])
            /\ state' = "idle"
            /\ sm_pc' = "top"
    /\ session_id' = None /\ ctx' = None
    /\ UNCHANGED <<audio_queue, audio_pc, frame, created, coreOthers>>

\* lines 273-274 and 278-280: showing the ERROR face raises during the
\* cool-down; the state is set to ERROR again and the branch is re-entered
SmErrorRaised ==
    /\ sm_pc = "cooldown"
    /\ state' = "error"
    /\ UNCHANGED <<active_sessions, audio_queue, audio_pc, frame, sm_pc,
                   session_id, ctx, created, coreOthers>>

\* line 276 skipped: the sleep ends and the state is left as it is
SmErrorDoneKeepsState ==
    /\ sm_pc = "cooldown"
    /\ sm_pc' = "top"
    /\ UNCHANGED <<state, active_sessions, audio_queue, audio_pc, frame,
                   session_id, ctx, created, coreOthers>>

\* line 276: after the sleep the state is set to IDLE
SmErrorDone ==
    /\ sm_pc = "cooldown"
    /\ state' = "idle"
    /\ sm_pc' = "top"
    /\ UNCHANGED <<active_sessions, audio_queue, audio_pc, frame, session_id,
                   ctx, created, coreOthers>>

(***************************************************************************)
(* The Wyoming wire format (wyoming.py, examples/pi_satellite.py).  Bytes  *)
(* and characters are one-element strings; "NUL" stands for the byte 0.    *)
(* A header is the dict of the client, of which the room is free text.     *)
(***************************************************************************)
MaxRoom == 2      \* longest room name of a header (characters)
MaxPayload == 3   \* longest PCM payload (bytes)

NUL == "NUL"

\* json.dumps of a str: the quotation mark, the backslash and the control
\* character are escaped, so that no byte 0 is written
json_escape(c) ==
    CASE c = "\"" -> <<"\\", "\"">>
      [] c = "\\" -> <<"\\", "\\">>
      [] c = NUL -> <<"\\", "u", "0", "0", "0", "0">>
      [] OTHER -> <<c>>

RECURSIVE json_dumps_str(_)
json_dumps_str(text) ==
    IF text = <<>> THEN <<>>
    ELSE json_escape(Head(text)) \o json_dumps_str(Tail(text))

K_room == <<"r", "o", "o", "m">>

\* json.dumps(msg): {"room": "<escaped text>"}
json_dumps(msg) ==
    <<"{", "\"">> \o K_room \o <<"\"", ":", " ", "\"">>
        \o json_dumps_str(msg.room) \o <<"\"", "}">>

\* the characters of a JSON string from position i up to its closing
\* quotation mark: [text, next] or, on a malformed string, [error]
RECURSIVE json_scan_str(_, _, _)
json_scan_str(s, i, acc) ==
    IF i > Len(s) THEN [error |-> TRUE]
    ELSE IF s[i] = "\"" THEN [error |-> FALSE, text |-> acc, next |-> i + 1]
    ELSE IF s[i] = NUL THEN [error |-> TRUE]
    ELSE IF s[i] # "\\" THEN json_scan_str(s, i + 1, Append(acc, s[i]))
    ELSE IF i + 1 > Len(s) THEN [error |-> TRUE]
    ELSE IF s[i + 1] \in {"\"", "\\"}
         THEN json_scan_str(s, i + 2, Append(acc, s[i + 1]))
    ELSE IF /\ s[i + 1] = "u" /\ i + 5 <= Len(s)
            /\ SubSeq(s, i + 2, i + 5) = <<"0", "0", "0", "0">>
         THEN json_scan_str(s, i + 6, Append(acc, NUL))
    ELSE [error |-> TRUE]

\* json.loads of a header: the dict, or None for a JSONDecodeError
json_loads(s) ==
    LET open == <<"{", "\"">> \o K_room \o <<"\"", ":", " ", "\"">>
    IN  IF Len(s) < Len(open) \/ SubSeq(s, 1, Len(open)) # open THEN None
        ELSE LET r == json_scan_str(s, Len(open) + 1, <<>>)
             IN  IF r.error THEN None
                 ELSE IF SubSeq(s, r.next, Len(s)) # <<"}">> THEN None
                 ELSE Some([room |-> r.text])

RoomChars == {"z", NUL, "\"", "\\"}
Rooms == UNION {[1..n -> RoomChars] : n \in 0..MaxRoom}
Payloads == UNION {[1..n -> {NUL, "p"}] : n \in 1..MaxPayload}

\* the message split at its last byte 0
null_idx_last(message_raw) ==
    LET hits == {i \in 1..Len(message_raw) : message_raw[i] = NUL}
    IN  IF hits = {} THEN -1 ELSE Max(hits) - 1

\* line 110: message_raw.find(b'\x00')
null_idx_of(message_raw) == find(message_raw, <<NUL>>)

\* WyomingPiClient.send_audio_chunk: header, one byte 0, the PCM bytes
SendAudioChunk ==
    /\ wy_message = None /\ wy_parsed = None
    /\ wy_message' = Some(json_dumps(wy_msg) \o <<NUL>> \o wy_data)
    /\ UNCHANGED <<wy_msg, wy_data, wy_parsed>>
    /\ UNCHANGED <<noiseVars, thVars, lsVars, deadline, now, capVars, env,
                   coreVars, hfVars>>

\* WyomingServer._process_message, lines 107-121: the bytes are split at
\* the first byte 0 and the header is parsed; a JSONDecodeError is logged
ProcessMessage ==
    /\ wy_message # None
    /\ LET message_raw == wy_message[1]
           null_idx == null_idx_of(message_raw)
           json_part == IF null_idx > 0 THEN SubSeq(message_raw, 1, null_idx)
                        ELSE message_raw
           audio_part == IF null_idx > 0
                         THEN SubSeq(message_raw, null_idx + 2, Len(message_raw))
                         ELSE <<>>
       IN  wy_parsed' = Some([data |-> json_loads(json_part),
                              audio_part |-> audio_part])
    /\ wy_message' = None
    /\ UNCHANGED <<wy_msg, wy_data>>
    /\ UNCHANGED <<noiseVars, thVars, lsVars, deadline, now, capVars, env,
                   coreVars, hfVars>>

(***************************************************************************)
(* Initial states.  Every specification starts the parts it does not       *)
(* exercise in their state after construction and never moves them.        *)
(***************************************************************************)
ListenerSpeech == 13 \* frames of one utterance heard by the listener

NoiseInit == noise_floor = 0 /\ noise_calibrated = FALSE

ThIdle ==
    /\ th_fixed = DEFAULT_VOICE_THRESHOLD
    /\ th_last = None /\ th_prev = None /\ th_samples = None

LsOff ==
    /\ ls_pc = "off"
    /\ transcript = <<>> /\ command = <<>> /\ followup_text = <<>>
    /\ brain_call = None /\ stream_active = TRUE
    /\ deadline = None /\ now = 0

EnvOff ==
    env = [max_speech |-> 0, pauses |-> 0, prompt |-> FALSE, exact |-> FALSE,
           calib |-> {}, texts |-> {}]

HfOff == hf_text = <<>> /\ hf_dur = 0 /\ hf_verdict = None

WyOff ==
    /\ wy_msg = [room |-> <<>>] /\ wy_data = <<>>
    /\ wy_message = None /\ wy_parsed = None

\* AssistantCore.__init__
CoreInit ==
    /\ state = "idle"
    /\ active_sessions = <<>>
    /\ audio_queue = <<>>
    /\ audio_pc = "get" /\ frame = None
    /\ sm_pc = "top" /\ session_id = None /\ ctx = None
    /\ created = 0

ThInit ==
    /\ th_fixed \in FixedThresholds
    /\ th_last = None
    /\ th_prev = None
    /\ th_samples = None
    /\ noise_calibrated \in BOOLEAN
    /\ noise_floor \in 0..MaxNoise
    /\ ~noise_calibrated => noise_floor = 0
    /\ LsOff /\ CapIdle /\ EnvOff /\ CoreInit /\ HfOff /\ WyOff

\* the module as imported (lines 169-170), before any calibration
CalibInit ==
    /\ ThIdle /\ NoiseInit
    /\ LsOff /\ CapIdle /\ EnvOff /\ CoreInit /\ HfOff /\ WyOff

WakeAlphabet == {"E", "x", "o", "a", " ", ","}

WakeInputs ==
    UNION {[1..n -> WakeAlphabet] : n \in 0..MaxLen}
        \cup {T_exo_allume, T_exo, T_allume, T_soustitres, T_exo_dis_echo,
              T_exo_exa}

\* the listener just after a capture returned some transcript
WakeInit ==
    /\ ls_pc = "heard"
    /\ transcript \in WakeInputs
    /\ command = <<>> /\ followup_text = <<>> /\ brain_call = None
    /\ stream_active = TRUE
    /\ deadline = None /\ now = 0
    /\ NoiseInit /\ ThIdle /\ CapIdle /\ EnvOff /\ CoreInit /\ HfOff /\ WyOff

\* capture configurations at 16 kHz with frames of 4000 samples (250 ms):
\* the defaults, a timeout of two frames, a timeout shorter than one frame,
\* and a long minimum duration with a short silence
CapBase ==
    [DefaultArgs EXCEPT !.chunk_size = 4000, !.max_sec = 2750]
CapScenarios ==
    {[CapBase EXCEPT !.fn = f] : f \in {Plain, Streaming}}
        \cup {[CapBase EXCEPT !.timeout_sec = Some(t)] : t \in {100, 600}}
        \cup {[CapBase EXCEPT !.min_sec = 2000, !.silence_chunks_end = 2]}

CaptureInit ==
    /\ CapIdle
    /\ env = [max_speech |-> MaxSpeech, pauses |-> MaxPauses, prompt |-> FALSE,
              exact |-> TRUE, calib |-> {<<>>, <<20, 100>>},
              texts |-> {<<>>, T_exo, T_soustitres}]
    /\ NoiseInit /\ ThIdle /\ LsOff /\ CoreInit /\ HfOff /\ WyOff

\* the same with a speaker who starts promptly, or not at all, and pauses
\* only at the end
FairInit ==
    /\ CapIdle
    /\ env = [max_speech |-> MaxSpeech, pauses |-> 0, prompt |-> TRUE,
              exact |-> FALSE, calib |-> {<<>>},
              texts |-> {<<>>, T_exo}]
    /\ NoiseInit /\ ThIdle /\ LsOff /\ CoreInit /\ HfOff /\ WyOff

\* the same in a room of 100 RMS, with a module that is either not yet
\* calibrated or was calibrated earlier, in a room of 20 RMS
ProfileInit ==
    /\ CapIdle
    /\ env = [max_speech |-> MaxSpeech, pauses |-> 0, prompt |-> TRUE,
              exact |-> FALSE, calib |-> {<<>>, <<100>>},
              texts |-> {<<>>, T_exo}]
    /\ \/ NoiseInit
       \/ noise_floor = 20 /\ noise_calibrated = TRUE
    /\ ThIdle /\ LsOff /\ CoreInit /\ HfOff /\ WyOff

\* captures long enough to fill the sliding window: 5 s at most (20 frames),
\* with a silent run allowed to be longer than the window (20) or just
\* longer than the default (6), and a speaker who pauses at most once
SoftScenarios ==
    {[CapBase EXCEPT !.fn = f, !.max_sec = 5000, !.silence_chunks_end = n] :
         f \in {Plain, Streaming}, n \in {6, 20}}

SoftInit ==
    /\ CapIdle
    /\ env = [max_speech |-> SoftSpeech, pauses |-> SoftPauses, prompt |-> TRUE,
              exact |-> FALSE, calib |-> {<<>>},
              texts |-> {<<>>, T_exo}]
    /\ NoiseInit /\ ThIdle /\ LsOff /\ CoreInit /\ HfOff /\ WyOff

\* streaming captures of up to 12 s in frames of 1.5 s (8 frames), so that
\* the buffer outgrows MAX_STT_SEC between two frames
SnapScenarios ==
    {[DefaultArgs EXCEPT !.chunk_size = 24000, !.max_sec = 12000]}

SnapInit ==
    /\ CapIdle
    /\ env = [max_speech |-> SnapSpeech, pauses |-> SoftPauses, prompt |-> TRUE,
              exact |-> FALSE, calib |-> {<<>>},
              texts |-> {<<>>, T_exo}]
    /\ NoiseInit /\ ThIdle /\ LsOff /\ CoreInit /\ HfOff /\ WyOff

ListenerInit ==
    /\ ls_pc = "capture"
    /\ transcript = <<>> /\ command = <<>> /\ followup_text = <<>>
    /\ brain_call = None /\ stream_active = TRUE
    /\ deadline = None /\ now = 0
    /\ CapIdle
    /\ env = [max_speech |-> ListenerSpeech, pauses |-> 0, prompt |-> TRUE,
              exact |-> FALSE, calib |-> {<<100>>},
              texts |-> {<<>>, T_exo, T_exo_allume, T_allume, T_soustitres}]
    /\ NoiseInit /\ ThIdle /\ CoreInit /\ HfOff /\ WyOff

\* the clients of the orchestrator: how many frames they let wait in the
\* queue and how many frames and contexts they cause to be created
Clients(queue, objects) ==
    [max_speech |-> 0, pauses |-> 0, prompt |-> FALSE, exact |-> FALSE,
     calib |-> {}, texts |-> {}, queue |-> queue, objects |-> objects]

OrchestratorInit ==
    /\ CoreInit
    /\ env = Clients(CoreQueue, CoreObjects)
    /\ NoiseInit /\ ThIdle /\ LsOff /\ CapIdle /\ HfOff /\ WyOff

\* the audio loop alone, fed with frames of one room
QueueInit ==
    /\ CoreInit
    /\ env = Clients(MaxQueue, MaxObjects)
    /\ NoiseInit /\ ThIdle /\ LsOff /\ CapIdle /\ HfOff /\ WyOff

(***************************************************************************)
(* One call of is_hallucination on a transcript and an audio duration.     *)
(***************************************************************************)
MaxWords == 7        \* most word groups (FilterWords) of an enumerated transcript

RECURSIVE Join(_)
Join(words) ==
    IF words = <<>> THEN <<>>
    ELSE IF Len(words) = 1 THEN words[1]
    ELSE words[1] \o <<" ">> \o Join(Tail(words))

\* transcripts made of short words, for the word-rate and repetition rules
FilterWords == {<<"a">>, <<"b", " ", "c">>, <<"d">>}
WordTexts ==
    {Join(ws) : ws \in UNION {[1..n -> FilterWords] : n \in (MaxWords - 2)..MaxWords}}

\* transcripts of a few characters, for the minimum of word characters
ShortTexts == UNION {[1..n -> {"a", ".", " "}] : n \in 0..MaxLen}

\* every known artifact alone, capitalised, and inside a sentence
ArtifactTexts ==
    {WHISPER_HALLUCINATIONS[k] : k \in 1..Len(WHISPER_HALLUCINATIONS)}
        \cup {<<"a", "b", " ">> \o WHISPER_HALLUCINATIONS[k] \o <<" ", "d">> :
                  k \in 1..Len(WHISPER_HALLUCINATIONS)}
        \cup {T_soustitres}

FilterTexts ==
    WordTexts \cup ShortTexts \cup ArtifactTexts
        \cup {T_exo, T_exo_allume, T_allume, T_exo_dis_echo}

\* audio durations (ms): unknown, at and just above the 1.0 s limit, 2 s
FilterDurations == {0, 1000, 1100, 2000}

FilterInit ==
    /\ hf_text \in FilterTexts
    /\ hf_dur \in FilterDurations
    /\ hf_verdict = None
    /\ NoiseInit /\ ThIdle /\ LsOff /\ CapIdle /\ EnvOff /\ CoreInit /\ WyOff

\* is_hallucination(text, audio_duration_sec) is called
HfCall ==
    /\ hf_verdict = None
    /\ hf_verdict' = Some(is_hallucination(hf_text, hf_dur))
    /\ UNCHANGED <<hf_text, hf_dur, noiseVars, thVars, lsVars, deadline, now,
                   capVars, env, coreVars, wyVars>>

(***************************************************************************)
(* Specifications.                                                         *)
(***************************************************************************)
vars == <<noiseVars, thVars, lsVars, deadline, now, capVars, env, coreVars,
         hfVars, wyVars>>

CaptureStep ==
    \/ \E e \in FrameEnergies : CapRead(e)
    \/ CapSleepDone
    \/ CapSeal
    \/ CapAwaitPending
    \/ CapFinal
    \/ WorkerFinishPending
    \/ WorkerFinishFinal

CaptureNext ==
    \/ \E a \in CapScenarios : CapCall(a)
    \/ CaptureStep
    \/ CapReadFail

ListenerNext ==
    \/ LsCapture
    \/ LsHeard
    \/ LsFilter
    \/ LsExtract
    \/ LsFollowup
    \/ LsFollowupHeard
    \/ LsFollowupDone
    \/ LsProcess
    \/ \E outcome \in ProcessOutcomes : LsProcessDone(outcome)
    \/ LsRaised
    \/ CaptureStep

CoreNext ==
    \/ \E sid \in SessionIds, p \in Priorities : OnAudioFrame(sid, p)
    \/ OnWyomingAudio
    \/ \E sid \in SessionIds : OnTextInput(sid)
    \/ AudioGet
    \/ \E heard \in BOOLEAN : AudioTranscribed(heard)
    \/ SmProcess
    \/ \E raised \in BOOLEAN : SmBrainDone(raised)
    \/ SmErrorRaised
    \/ SmErrorDone

SoftNext ==
    \/ \E a \in SoftScenarios : CapCall(a)
    \/ CaptureStep
    \/ CapReadFail

SnapNext ==
    \/ \E a \in SnapScenarios : CapCall(a)
    \/ CaptureStep
    \/ CapReadFail

\* the streaming capture on utterances longer than MAX_STT_SEC
SpecSnapshot == SnapInit /\ [][SnapNext]_vars

\* the capture call on utterances that outlast the sliding window
SpecSoft == SoftInit /\ [][SoftNext]_vars

\* the capture call alone, under every configuration
Spec == CaptureInit /\ [][CaptureNext]_vars

\* the same on a stream that never fails to deliver its next frame and with
\* an executor that finishes its jobs
FairNext ==
    \/ \E a \in CapScenarios : CapCall(a)
    \/ CaptureStep

SpecCaptureFair ==
    FairInit /\ [][FairNext]_vars /\ WF_vars(CaptureStep)

\* the capture call on a stream whose reads may fail, with a loop that
\* keeps running: whatever step the call can take next, it takes one
SpecCaptureLoop ==
    FairInit /\ [][CaptureNext]_vars /\ WF_vars(CaptureNext)

\* the capture call with or without an earlier calibration
SpecProfile == ProfileInit /\ [][CaptureNext]_vars

SpecListener == ListenerInit /\ [][ListenerNext]_vars

SpecThreshold == ThInit /\ [][ThCalibrate \/ ThGet]_vars

\* calibrations at startup and periodically, and threshold evaluations
SpecCalibration == CalibInit /\ [][ThRecalibrate \/ ThGet]_vars

WireInit ==
    /\ wy_msg \in [room : Rooms]
    /\ wy_data \in Payloads
    /\ wy_message = None /\ wy_parsed = None
    /\ NoiseInit /\ ThIdle /\ LsOff /\ CapIdle /\ EnvOff /\ CoreInit /\ HfOff

\* one audio message from the satellite client to the server
SpecWire == WireInit /\ [][SendAudioChunk \/ ProcessMessage]_vars

SpecWake == WakeInit /\ [][LsFilter \/ LsExtract]_vars

SpecCore == OrchestratorInit /\ [][CoreNext]_vars

\* the same with two loops that keep running: a frame that waits is taken
\* and transcribed, a Brain call returns or raises, a cool-down ends
SpecCoreFair ==
    /\ OrchestratorInit /\ [][CoreNext]_vars
    /\ WF_vars(AudioGet)
    /\ WF_vars(\E heard \in BOOLEAN : AudioTranscribed(heard))
    /\ WF_vars(SmProcess)
    /\ WF_vars(\E raised \in BOOLEAN : SmBrainDone(raised))
    /\ WF_vars(SmErrorDone)

\* the state-machine loop and the text inputs
SmNext ==
    \/ \E sid \in SessionIds : OnTextInput(sid)
    \/ SmProcess
    \/ \E raised \in BOOLEAN : SmBrainDone(raised)
    \/ SmErrorRaised
    \/ SmErrorDone

\* the same with a cool-down sleep that ends
SpecStateMachine ==
    OrchestratorInit /\ [][SmNext]_vars /\ WF_vars(SmErrorDone)

QueueNext ==
    \/ \E sid \in QueueSessions, p \in Priorities : OnAudioFrame(sid, p)
    \/ OnWyomingAudio
    \/ AudioGet
    \/ \E heard \in BOOLEAN : AudioTranscribed(heard)

\* the audio queue and the audio processing loop
SpecQueue == QueueInit /\ [][QueueNext]_vars

SpecFilter == FilterInit /\ [][HfCall]_vars

(***************************************************************************)
(* Properties.                                                             *)
(***************************************************************************)
Short == DurationMs(buffer) < args.min_sec
Few == voice_chunks < DEFAULT_MIN_VOICE_CHUNKS

\* an utterance that was sealed and kept by streaming_capture_and_transcribe
KeptStreaming ==
    /\ args.fn = Streaming
    /\ cap_pc \in {"returned", "final_stt", "raised"}
    /\ voice_detected
    /\ duration # None
    /\ ~(Short \/ Few)

\* C1: no false starts.  As long as no frame has exceeded the effective
\* threshold the capture is still waiting: voice_detected is false, the
\* buffer is empty, total_chunks is 0 and no transcription job exists; and
\* the frame that ends the waiting phase is one whose energy is strictly
\* above the effective threshold.
C1_NoFalseStart ==
    /\ ~voice_detected =>
           /\ buffer = <<>>
           /\ total_chunks = 0
           /\ pending_future = None
           /\ final_future = None
    /\ (voice_detected /\ total_chunks = 1) => energy > effective_threshold

\* C1 witness: frames at and below the threshold have been read and the
\* capture is still waiting.
C1_Witness ==
    /\ cap_pc = "sleep"
    /\ ~voice_detected
    /\ wait_chunks >= 2
    /\ energy = effective_threshold

\* C2 (as stated): whenever fewer than REUSE_VOICE_THRESHOLD voiced chunks
\* were seen since the last submission, the returned transcript is the last
\* speculative result and no final transcription runs; otherwise the full
\* buffer is transcribed.
C2_ReuseAsStated ==
    KeptStreaming =>
        IF voice_since_submit < REUSE_VOICE_THRESHOLD
        THEN /\ cap_pc = "returned"
             /\ ret.transcript = last_transcript
             /\ final_future = None
        ELSE final_future # None

\* C2 (amended): the speculative result is reused exactly when it is
\* non-empty and fewer than REUSE_VOICE_THRESHOLD voiced chunks were seen
\* since the last submission; then it is the returned transcript and no
\* final transcription runs.  In every other case, in particular when no
\* speculative result exists, the full buffer is transcribed.
C2_Reuse ==
    KeptStreaming =>
        IF last_transcript # <<>> /\ voice_since_submit < REUSE_VOICE_THRESHOLD
        THEN /\ cap_pc = "returned"
             /\ ret.transcript = last_transcript
             /\ ret.reused = Some(TRUE)
             /\ final_future = None
        ELSE final_future # None

\* C2 witness: a speculative result was reused.
C2_Witness ==
    /\ KeptStreaming
    /\ cap_pc = "returned"
    /\ ret.reused = Some(TRUE)
    /\ ret.transcript # <<>>

\* C3: active_sessions never holds more than max_concurrent_sessions
\* command contexts.
C3_SessionCap == Len(active_sessions) <= max_concurrent_sessions

\* C4: a capture that was given a timeout and is waiting for voice
\* eventually returns or detects voice, on a stream that keeps delivering
\* frames.
C4_WaitEnds ==
    (cap_pc = "read" /\ ~voice_detected /\ args.timeout_sec # None)
        ~> (cap_pc = "returned" \/ voice_detected)

\* int(T * sample_rate / chunk_size) for the timeout T of the call
TimeoutFrames ==
    (args.timeout_sec[1] * args.sample_rate) \div (1000 * args.chunk_size)

\* C5: voice timeout.  With a timeout T and only sub-threshold frames, the
\* capture has returned the empty result, with no job submitted, once
\* int(T*sample_rate/chunk_size) frames (and at least one) have been read.
C5_VoiceTimeout ==
    (/\ args.timeout_sec # None
     /\ ~voice_detected
     /\ wait_chunks >= Max({TimeoutFrames, 1}))
        => /\ cap_pc = "returned"
           /\ ret = NoReturn
           /\ pending_future = None
           /\ final_future = None

\* C6: follow-up deadline.  A follow-up capture that has heard no voice is
\* never still waiting two frame periods after the deadline: the listener
\* has left the follow-up loop by then.
C6_FollowupDeadline ==
    ~(/\ ls_pc = "followup_capturing"
      /\ cap_pc \in {"read", "sleep"}
      /\ ~voice_detected
      /\ now >= deadline[1] + 2 * ChunkMs)

\* C7: discard on seal.  A capture that detected voice and returned gives
\* the empty result (no audio, no transcript) whenever the sealed utterance
\* is shorter than min_sec or has fewer voiced chunks than the minimum, and
\* gives the completed buffer when both minima are met.
C7_DiscardOnSeal ==
    (cap_pc = "returned" /\ voice_detected) =>
        IF Short \/ Few THEN ret = NoReturn ELSE ret.audio = buffer

\* C7 witness: an utterance with enough voiced chunks was discarded for its
\* duration alone.
C7_Witness ==
    /\ cap_pc = "returned"
    /\ voice_detected
    /\ Short /\ ~Few
    /\ ret = NoReturn

\* C8: every value returned by get_adaptive_threshold lies in
\* [fixed * 0.5, fixed * 2.5], whatever the noise profile.
C8_ThresholdBounds ==
    th_last # None =>
        /\ 2 * th_last[1].result >= th_last[1].fixed
        /\ 2 * th_last[1].result <= 5 * th_last[1].fixed

\* C8 witness: an evaluation in which the ceiling cut the adaptive value.
C8_Witness ==
    /\ th_last # None
    /\ th_last[1].calibrated
    /\ 2 * th_last[1].floor * ADAPTIVE_MULTIPLIER > 5 * th_last[1].fixed
    /\ 2 * th_last[1].result = 5 * th_last[1].fixed

\* C9: for one fixed threshold, of two evaluations under calibrated noise
\* floors the one with the higher floor never returns the lower threshold.
C9_Monotone ==
    (/\ th_prev # None /\ th_last # None
     /\ th_prev[1].calibrated /\ th_last[1].calibrated
     /\ th_prev[1].floor <= th_last[1].floor)
        => th_prev[1].result <= th_last[1].result

Occurring(text_lower) ==
    {k \in 1..Len(WAKE_WORDS) : contains(text_lower, WAKE_WORDS[k])}

WordChars(t) == Cardinality({i \in 1..Len(t) : t[i] \notin NonWord})

WordStarts(t) ==
    {i \in 1..Len(t) : t[i] \notin Whitespace /\ (i = 1 \/ t[i - 1] \in Whitespace)}

HasArtifact(t) ==
    \E k \in 1..Len(WHISPER_HALLUCINATIONS) :
        LET h == WHISPER_HALLUCINATIONS[k]
        IN  \E i \in 1..(Len(t) - Len(h) + 1) :
                \A j \in 1..Len(h) : t[i + j - 1] = h[j]

RuleRate(t, dur) == dur > 1000 /\ Cardinality(WordStarts(t)) * 1000 > 6 * dur

RuleRepeat(t) ==
    LET n == Cardinality(WordStarts(t))
    IN  n >= 6 /\ 2 * Cardinality(Range(split(t))) < n

C12_OneJob ==
    [][/\ (cap_pc = "read" /\ last_submit_offset' > last_submit_offset)
            => pending_future = None
       /\ final_future' # None => pending_future' = None]_vars

\* C12 witness: a full transcription interval of new audio was captured
\* while a speculative job was still running, and nothing was submitted.
C12_Witness ==
    /\ cap_pc = "sleep"
    /\ pending_future # None /\ pending_future[1].status = "running"
    /\ BufferBytes(buffer) - last_submit_offset >= interval_bytes
    /\ voice_chunks >= DEFAULT_MIN_VOICE_CHUNKS

\* C13: a speculative job pending at seal is awaited: when the streaming
\* capture has returned, no job it submitted is still unresolved, on the
\* discard path too.
C13_AwaitedAtSeal ==
    (cap_pc = "returned" /\ args.fn = Streaming /\ pending_future # None)
        => pending_future[1].status = "done"

\* C14: when the poll of an accumulating iteration finds the speculative job
\* completed with a non-empty result that is not a hallucination for the
\* snapshot's duration, that result becomes last_transcript.
C14_PolledKept ==
    [][(/\ cap_pc = "read" /\ cap_pc' = "sleep"
        /\ total_chunks' = total_chunks + 1
        /\ pending_future # None
        /\ pending_future[1].status = "done"
        /\ pending_future[1].result \notin {<<>>, Raised}
        /\ ~is_hallucination(pending_future[1].result,
                             (pending_future[1].bytes * 1000)
                                 \div (args.sample_rate * 2)))
           => last_transcript' = pending_future[1].result]_vars

\* the streaming capture has returned a kept utterance whose tail, the voiced
\* chunks since the last submission, is at or above the reuse threshold
LongTailReturned ==
    /\ cap_pc = "returned" /\ args.fn = Streaming /\ voice_detected
    /\ ~Discard(buffer, voice_chunks)
    /\ voice_since_submit >= REUSE_VOICE_THRESHOLD

\* C15 as stated: with a tail at or above the reuse threshold the transcript
\* returned is the result of the final full-buffer transcription.
C15_FinalAsStated ==
    LongTailReturned
        => final_future # None /\ ret.transcript = final_future[1].result

\* C15: with a tail at or above the reuse threshold a final transcription of
\* the full buffer is run and the call is not reported as reused; its result
\* is returned when it is non-empty and passes the hallucination filter, and
\* otherwise the last good speculative text (possibly empty) is returned.
C15_FinalOrFallback ==
    LongTailReturned
        => /\ final_future # None /\ final_future[1].status = "done"
           /\ final_future[1].bytes = BufferBytes(buffer)
           /\ ret.reused = Some(FALSE)
           /\ LET result == final_future[1].result
              IN  ret.transcript =
                      IF result # <<>> /\ ~is_hallucination(result, DurationMs(buffer))
                      THEN result ELSE last_transcript

\* C15 witness: the final result was rejected and the speculative text of
\* the awaited job was returned instead, with 6 voiced chunks after it.
C15_Witness ==
    /\ LongTailReturned
    /\ final_future[1].result \in {<<>>, T_soustitres}
    /\ last_transcript = T_exo
    /\ ret.transcript = T_exo

\* C16: hard end rule.  On every accumulated frame the consecutive-silence
\* counter is incremented if the frame is below the threshold and reset to 0
\* otherwise; the capture seals on the frame at which the counter reaches
\* silence_chunks_end, and the counter never exceeds silence_chunks_end.
C16_HardEnd ==
    [][(cap_pc = "read" /\ voice_detected /\ total_chunks' = total_chunks + 1)
           => /\ silent_count' = IF energy' < effective_threshold
                                 THEN silent_count + 1 ELSE 0
              /\ silent_count' <= args.silence_chunks_end
              /\ silent_count' = args.silence_chunks_end => cap_pc' = "sealed"]_vars

\* C16 witness: the speaker paused, resumed (the counter was reset), and the
\* capture then sealed on the frame that completed the silent run, before
\* the hard cap.
C16_Witness ==
    /\ cap_pc = "sealed"
    /\ silent_count = args.silence_chunks_end
    /\ Resumptions(buffer) >= 1
    /\ total_chunks < max_chunks

\* voiced entries of the sliding window
WindowVoiced(window) == Cardinality({i \in 1..Len(window) : window[i]})

\* C17 as stated: on every accumulated frame after which the window holds
\* SILENCE_WINDOW_SIZE entries of which less than SILENCE_END_RATIO (a fifth)
\* are voiced, the capture seals on that frame, whatever silence_chunks_end.
C17_SoftEndAsStated ==
    [][(/\ cap_pc = "read" /\ voice_detected /\ total_chunks' = total_chunks + 1
        /\ Len(recent_voice') = SILENCE_WINDOW_SIZE
        /\ 5 * WindowVoiced(recent_voice') < SILENCE_WINDOW_SIZE)
           => cap_pc' = "sealed"]_vars

\* C17: on every accumulated frame after which the window is full, less than
\* a fifth of it is voiced and at least DEFAULT_MIN_VOICE_CHUNKS voiced frames
\* have been captured, the capture seals on that frame, whatever
\* silence_chunks_end; and a frame seals the capture only by this rule or by
\* the hard end rule.
C17_SoftEnd ==
    [][(cap_pc = "read" /\ voice_detected /\ total_chunks' = total_chunks + 1)
           => LET soft == /\ Len(recent_voice') = SILENCE_WINDOW_SIZE
                          /\ 5 * WindowVoiced(recent_voice') < SILENCE_WINDOW_SIZE
                          /\ voice_chunks' >= DEFAULT_MIN_VOICE_CHUNKS
              IN  /\ soft => cap_pc' = "sealed"
                  /\ cap_pc' = "sealed"
                         => soft \/ silent_count' >= args.silence_chunks_end]_vars

\* C17 witness: the capture sealed by the window alone, with a silent run
\* shorter than silence_chunks_end = 20 and before the hard cap.
C17_Witness ==
    /\ cap_pc = "sealed"
    /\ args.silence_chunks_end > SILENCE_WINDOW_SIZE
    /\ silent_count < args.silence_chunks_end
    /\ total_chunks < max_chunks
    /\ Len(recent_voice) = SILENCE_WINDOW_SIZE
    /\ 5 * WindowVoiced(recent_voice) < SILENCE_WINDOW_SIZE

\* C18: hard cap.  The buffer holds exactly the total_chunks frames read
\* since onset, never more than max_chunks = int(max_sec * sample_rate /
\* chunk_size), and no further frame is read once max_chunks frames are held,
\* whatever their loudness.
C18_HardCap ==
    /\ Len(buffer) = total_chunks
    /\ total_chunks <= max_chunks
    /\ cap_pc = "read" => total_chunks < max_chunks

\* C18 witness: the capture sealed at max_chunks frames on a voiced frame.
C18_Witness ==
    /\ cap_pc = "sealed"
    /\ total_chunks = max_chunks
    /\ silent_count = 0
    /\ buffer[Len(buffer)]

\* C19: onset.  While waiting, a frame at or below the effective threshold
\* leaves the buffer empty and the first frame above it becomes the first
\* frame of the buffer; from then on the buffer only grows, by the frame just
\* read appended at its end; and the audio returned for a kept utterance is
\* that buffer.
C19_Onset ==
    [][/\ (cap_pc = "read" /\ ~voice_detected)
            => /\ energy' > effective_threshold => voice_detected'
               /\ IF voice_detected'
                  THEN energy' > effective_threshold /\ buffer' = <<TRUE>>
                  ELSE buffer' = <<>>
       /\ (cap_pc \in {"read", "sleep", "sealed", "await_pending", "final_stt"}
             /\ voice_detected)
            => \/ buffer' = buffer
               \/ /\ cap_pc = "read"
                  /\ buffer' = Append(buffer, energy' >= effective_threshold)
       /\ (cap_pc' = "returned" /\ ret'.audio # <<>>)
            => ret'.audio = buffer' /\ buffer'[1]]_vars

\* C19 witness: frames below the threshold were read before the onset, and
\* the returned audio starts with the onset frame and holds the silent
\* frames read after it.
C19_Witness ==
    /\ cap_pc = "returned"
    /\ wait_chunks >= 1
    /\ buffer # <<>>
    /\ ret.audio = buffer
    /\ buffer[1]
    /\ \E i \in 2..Len(buffer) : ~buffer[i]

\* C20: the Brain is called only for a confirmed command.  Whenever the
\* Brain has been called in the current iteration of the listener's loop,
\* the transcript of that iteration is non-empty, passed the hallucination
\* filter and contains a wake word, and the command passed is either the
\* text after the wake word, of at least 2 tokens, or a command completed by
\* the non-empty text of a follow-up utterance.
C20_ConfirmedCommand ==
    brain_call # None =>
        LET heard == strip(lower(transcript))
            after == extract_command_after_wake(transcript)
            passed == brain_call[1]
        IN  /\ transcript # <<>>
            /\ ~is_hallucination(transcript, 0)
            /\ \E k \in 1..Len(WAKE_WORDS) : contains(heard, WAKE_WORDS[k])
            /\ IF followup_text = <<>>
               THEN Len(split(after)) >= 2 /\ passed = after
               ELSE /\ Len(split(after)) < 2
                    /\ passed = IF after = <<>> THEN followup_text
                                ELSE strip(after \o <<" ">> \o followup_text)

\* C20 witness: "Exo" alone was heard, a follow-up utterance supplied the
\* command, and the Brain was called with it.
C20_Witness ==
    /\ brain_call # None
    /\ transcript = T_exo
    /\ followup_text # <<>>
    /\ brain_call[1] = followup_text

\* ids of the frames waiting in a queue
Waiting(queue) == {queue[i][2].id : i \in 1..Len(queue)}

\* C21: no audio frame is dropped.  A frame handed to the orchestrator is
\* in the queue when the callback is over, and a frame that leaves the queue
\* is the one the audio loop goes on to process.
C21_NoFrameDropped ==
    [][/\ (created' = created + 1 /\ active_sessions' = active_sessions)
            => created' \in Waiting(audio_queue')
       /\ Waiting(audio_queue) \ Waiting(audio_queue') # {}
            => /\ frame' # None
               /\ Waiting(audio_queue) \ Waiting(audio_queue') = {frame'[1].id}]_vars

\* C22: priority order.  The frame the audio loop takes from the queue has
\* the highest priority of the frames that were waiting, priority 1 being
\* high and 0 normal.
C22_HighestFirst ==
    [][(audio_pc = "get" /\ audio_pc' = "transcribe")
           => \A i \in 1..Len(audio_queue) :
                  audio_queue[i][2].priority <= frame'[1].priority]_vars

\* C23: per-room order.  The frame the audio loop takes from the queue is
\* the earliest enqueued of the waiting frames of its room (session) and
\* priority.
C23_RoomOrder ==
    [][(audio_pc = "get" /\ audio_pc' = "transcribe")
           => \A i \in 1..Len(audio_queue) :
                  (/\ audio_queue[i][2].session_id = frame'[1].session_id
                   /\ audio_queue[i][2].priority = frame'[1].priority)
                      => audio_queue[i][2].id >= frame'[1].id]_vars

\* ids of the command contexts held in active_sessions
Held(sessions) == {sessions[i].id : i \in 1..Len(sessions)}

\* C24: every command context is consumed and then destroyed.  When a Brain
\* call returns, the context removed from active_sessions is the one that
\* was handed to the Brain, whatever arrived during the call.
C24_ConsumedThenDestroyed ==
    [][(sm_pc = "brain" /\ sm_pc' = "top")
           => Held(active_sessions) \ Held(active_sessions') \subseteq {ctx[1].id}]_vars

\* C25: error recovery.  While the state is ERROR the state-machine loop is
\* alive, in its cool-down; when the cool-down ends the state is IDLE; and
\* every ERROR state is eventually followed by IDLE.
C25_ErrorRecovery ==
    /\ [][/\ state' = "error" => sm_pc' = "cooldown"
          /\ (sm_pc = "cooldown" /\ sm_pc' # "cooldown") => state' = "idle"]_vars
    /\ (state = "error" ~> state = "idle")

\* C25 witness: the Brain call raised; the state is ERROR and the context
\* that was being processed is still registered.
C25_Witness ==
    /\ state = "error"
    /\ sm_pc = "cooldown"
    /\ active_sessions # <<>>

\* C26: state sequence.  When the Brain call for a session returns without
\* raising, the orchestrator state becomes RESPONDING; PROCESSING is never
\* followed directly by IDLE on a successful Brain call.
C26_RespondingBeforeIdle ==
    [][(sm_pc = "brain" /\ sm_pc' = "top")
           => state' = "responding" /\ ~(state = "processing" /\ state' = "idle")]_vars

\* C27: a transcription failure is never fatal.  No exception of the
\* transcription engine leaves streaming_capture_and_transcribe, and the
\* listener's loop never shuts down out of a capture.
C27_TranscriptionNeverFatal ==
    [][/\ cap_pc' # "raised"
       /\ ls_pc \in {"capturing", "followup_capturing"} => ls_pc' # "shutdown"]_vars

\* C28: a Brain or TTS failure is never fatal to the control loop.  Whatever
\* the Brain call and the synthesis do, _process_command returns and the
\* listener goes on to its next capture.
C28_ProcessNeverFatal ==
    [][ls_pc = "brain" => ls_pc' \in {"brain", "capture"}]_vars

\* C29: audio read errors.  A failed frame read changes neither the buffer
\* nor any counter and the loop goes on; and if from some point on no read
\* of the stream succeeds, the capture does not retry forever: the failure
\* is raised as fatal.
C29_DeadHandleFatal ==
    /\ [][CapReadFail => UNCHANGED <<buffer, silent_count, voice_chunks,
                                     total_chunks, wait_chunks, recent_voice>>]_vars
    /\ (<>[][~(\E e \in FrameEnergies : CapRead(e))]_vars) => <>(cap_pc = "raised")

\* C30: calibration failure.  After any calibration call that collected
\* zero samples, also one that follows an earlier successful calibration,
\* the effective threshold equals the fixed default threshold.
C30_ZeroSamplesDefault ==
    th_samples = Some(0) => get_adaptive_threshold(th_fixed) = th_fixed

\* C31: wire-format round trip.  Whatever the header and the non-empty PCM
\* payload, bytes 0 included, the message built by the satellite client is
\* split by the server into the same header fields and the same payload.
C31_RoundTrip ==
    wy_parsed # None
        => /\ wy_parsed[1].data = Some(wy_msg)
           /\ wy_parsed[1].audio_part = wy_data

\* C31 witness: a message was split whose payload starts with a byte 0 and
\* holds another one, and whose header text holds the character 0.
C31_Witness ==
    /\ wy_parsed # None
    /\ wy_data = <<NUL, "p", NUL>>
    /\ wy_msg.room = <<NUL, "\"">>

\* C32: submission rule.  On an accumulated frame of the streaming capture
\* a speculative job is submitted if and only if the frame does not seal
\* the utterance, the buffer has grown by at least interval_bytes since the
\* last submission, at least DEFAULT_MIN_VOICE_CHUNKS voiced chunks have
\* been observed and no job is pending; a submission sets
\* last_submit_offset to the buffer length and voice_since_submit to 0.
C32_SubmissionRule ==
    [][(/\ cap_pc = "read" /\ voice_detected /\ args.fn = Streaming
        /\ total_chunks' = total_chunks + 1)
           => LET due == /\ cap_pc' # "sealed"
                         /\ Len(buffer') * FrameBytes - last_submit_offset
                                >= (TRANSCRIBE_INTERVAL_SEC * args.sample_rate * 2) \div 1000
                         /\ voice_chunks' >= DEFAULT_MIN_VOICE_CHUNKS
                         /\ pending_future = None
                  submitted == /\ pending_future' # None
                               /\ pending_future'[1].status = "running"
                               /\ pending_future' # pending_future
              IN  /\ submitted <=> due
                  /\ submitted => /\ last_submit_offset' = Len(buffer') * FrameBytes
                                  /\ voice_since_submit' = 0
                  /\ ~submitted => last_submit_offset' = last_submit_offset]_vars

\* C32 witness: a second job was submitted, after the first one was
\* collected: the offset is past the first interval and a job is running.
C32_Witness ==
    /\ cap_pc = "sleep" /\ args.fn = Streaming
    /\ pending_future # None /\ pending_future[1].status = "running"
    /\ last_submit_offset = Len(buffer) * FrameBytes
    /\ last_submit_offset >= 2 * interval_bytes + FrameBytes
    /\ voice_since_submit = 0

\* C33: snapshot cap.  Every speculative snapshot submitted is a suffix of
\* the buffer at submission time, at most 8 seconds long (8 * sample_rate *
\* 2 bytes), and the whole buffer when the buffer is not longer than that.
C33_SnapshotCap ==
    [][(/\ cap_pc = "read" /\ pending_future = None /\ pending_future' # None)
           => LET job == pending_future'[1]
                  held == Len(buffer') * FrameBytes
                  cap == 8 * args.sample_rate * 2
              IN  /\ job.start + job.bytes = held
                  /\ job.bytes <= cap
                  /\ held <= cap => job.bytes = held]_vars

\* C33 witness: a job runs on a snapshot that left out the start of a
\* buffer longer than 8 seconds.
C33_Witness ==
    /\ pending_future # None
    /\ pending_future[1].start > 0
    /\ pending_future[1].bytes = 8 * args.sample_rate * 2

\* C34: counter invariant.  In every state of a capture after voice onset
\* the buffer holds total_chunks frames of chunk_size samples, and
\* 1 <= voice_chunks <= total_chunks <= int(max_sec * sample_rate /
\* chunk_size), and voice_since_submit <= voice_chunks.
C34_Counters ==
    voice_detected
        => /\ Len(buffer) * args.chunk_size * 2 = total_chunks * args.chunk_size * 2
           /\ 1 <= voice_chunks
           /\ voice_chunks <= total_chunks
           /\ total_chunks
                  <= (args.max_sec * args.sample_rate) \div (1000 * args.chunk_size)
           /\ voice_since_submit <= voice_chunks
           /\ voice_chunks = Cardinality({i \in 1..Len(buffer) : buffer[i]})

\* C34 witness: a streaming capture at its hard cap, with silent frames in
\* the buffer and voiced frames both before and after the last submission.
C34_Witness ==
    /\ voice_detected /\ args.fn = Streaming
    /\ total_chunks = max_chunks
    /\ voice_chunks < total_chunks
    /\ 0 < voice_since_submit /\ voice_since_submit < voice_chunks

\* C35: every non-empty transcript that streaming_capture_and_transcribe
\* returns, reused, final or fallback, is one that is_hallucination does not
\* reject for the duration of the sealed utterance.
C35_NoHallucinationReturned ==
    (cap_pc = "returned" /\ args.fn = Streaming /\ ret.transcript # <<>>)
        => /\ duration # None
           /\ duration[1] = (Len(buffer) * FrameBytes * 1000) \div (args.sample_rate * 2)
           /\ ~is_hallucination(ret.transcript, duration[1])

\* C35 witness: the speculative text was returned on the reuse path.
C35_Witness ==
    /\ cap_pc = "returned" /\ args.fn = Streaming
    /\ ret.reused = Some(TRUE)
    /\ ret.transcript = T_exo

\* C36: the audio path reaches the Brain.  Once the audio processing loop
\* has stored a command context in active_sessions, the state-machine loop
\* eventually hands a context of the audio path to the Brain.
C36_AudioReachesBrain ==
    (\E i \in 1..Len(active_sessions) : active_sessions[i].source = "audio")
        ~> (ctx # None /\ ctx[1].source = "audio")

\* C37: microphone pairing in _process_command.  The input stream is
\* stopped during the Brain call, the synthesis and the playback; however
\* the function ends, the stream has been started again; and no capture
\* reads from a stopped stream.
C37_MicrophonePairing ==
    /\ [](ls_pc = "brain" => ~stream_active)
    /\ [][(ls_pc = "brain" /\ ls_pc' # "brain") => stream_active']_vars
    /\ [](cap_pc = "read" => stream_active)

\* C38: the noise profile is changed only by calibration.  A capture
\* changes _noise_floor and _noise_calibrated only on entry, before its
\* first frame, when the profile is uncalibrated, to the median of the
\* energies read then; and the effective threshold computed on entry is
\* the one used for every frame of the capture.
C38_ProfileOwnedByCalibration ==
    [][/\ <<noise_floor, noise_calibrated>>' # <<noise_floor, noise_calibrated>>
           => /\ cap_pc = "idle" /\ total_chunks' = 0 /\ wait_chunks' = 0
              /\ ~noise_calibrated /\ noise_calibrated'
              /\ \E energies \in env.calib \ {<<>>} : noise_floor' = median(energies)
       /\ cap_pc # "idle" => effective_threshold' = effective_threshold
       /\ cap_pc = "idle" /\ cap_pc' # "idle"
           => effective_threshold' =
                  IF noise_calibrated' /\ noise_floor' > 0
                  THEN Max({Min({noise_floor' * ADAPTIVE_MULTIPLIER,
                                 (args'.voice_threshold * 5) \div 2}),
                            args'.voice_threshold \div 2})
                  ELSE args'.voice_threshold]_vars

\* C38 witness: a capture entered with the profile of an earlier
\* calibration has read frames and sealed, the profile being the same.
C38_Witness ==
    /\ cap_pc = "sealed"
    /\ noise_calibrated /\ noise_floor = 20
    /\ effective_threshold = args.voice_threshold \div 2

\* C39: one voiced predicate.  A frame is counted as voiced during
\* accumulation (it resets the silence counter and increments voice_chunks)
\* if and only if the same frame would have started an utterance in the
\* waiting phase, also at an energy equal to the effective threshold.
C39_OneVoicedPredicate ==
    [][(cap_pc = "read" /\ voice_detected /\ total_chunks' = total_chunks + 1)
           => ((voice_chunks' = voice_chunks + 1 /\ silent_count' = 0)
                   <=> Onset(energy', effective_threshold))]_vars
====
